---- MODULE Spec2Model ----
(***************************************************************************)
(* Verification model of PyARTOS (cvjena/artos, Python front end).         *)
(*                                                                         *)
(* The module holds several state machines over one set of variables:      *)
(*   SpecBox     - detecting.BoundingBox (attribute protocol, scale)        *)
(*   SpecList    - learning.ModelManager (model list file)                  *)
(*   SpecCodec   - learning.Model (mixture file reader / writer)            *)
(*   SpecSession - detecting.Detector / learning.ModelLearner handles       *)
(*   SpecCamera  - GUI.CameraWindow (UI thread and detector thread)         *)
(*   SpecCameraFair - SpecCamera with fair threads and event loop           *)
(*   SpecEval    - detecting.Detector evaluation calls                      *)
(*   SpecPR      - GUI.Evaluation recall-precision curves                   *)
(*   SpecTimer   - utils.Timer                                              *)
(*   SpecProgress - gui_utils.ProgressWindow under the learning thread      *)
(*   SpecInspector - GUI.ModelCatalogue.HOGInspector                        *)
(*   SpecLearn   - GUI.ModelCatalogue.LearnDialog in-situ learning thread   *)
(* Each specification leaves the variables of the other machines alone.    *)
(*                                                                         *)
(* Text is modelled as sequences of one-character strings, numbers are     *)
(* formatted to and parsed from such sequences digit by digit.             *)
(***************************************************************************)
EXTENDS Integers, Sequences, FiniteSets, TLC

VARIABLES
    heap,       \* BoundingBox: the Python lists holding coordinates, by reference
    boxes,      \* BoundingBox: the two box objects "a" and "b"
    boxErr,     \* BoundingBox: exception raised by the last operation
    listFile,   \* ModelManager: the list file on storage
    disk,       \* ModelManager: paths of the model files present on storage
    mgr,        \* ModelManager: the manager object (absent before construction)
    mgrOp,      \* ModelManager: the last call and how it ended
    mfile,      \* Model: the lines of the mixture file on storage
    mx,         \* Model: the mixture in memory (NoModel before a load)
    mxOp,       \* Model: the last call and how it ended
    sess,       \* sessions: the Detector and the ModelLearner object
    nat,        \* sessions: what the native library has seen of each handle
    sessOp,     \* sessions: the last call and how it ended
    ui,         \* camera window: the UI thread (position, window fields)
    thr,        \* camera window: the detector thread's position
    shared,     \* camera window: lock, events, detector, native calls in flight
    evDet,      \* evaluation: the detector object (models added to it)
    evOp,       \* evaluation: the last wrapper call and how it ended
    pr,         \* evaluation window: the last _processResults call
    tm,         \* Timer: limit, measurements and running flag
    pwin,       \* progress window: stored values, widgets, pending poll
    lrn,        \* LearnDialog: the UI thread and the learning thread
    insp,       \* the component inspector window and its mixture
    ifile,      \* the model file of the catalogue entry the inspector is opened on
    job         \* LearnDialog in-situ learning: the thread, its learner calls and _error

boxVars == <<heap, boxes, boxErr>>
listVars == <<listFile, disk, mgr, mgrOp>>
codecVars == <<mfile, mx, mxOp>>
sessVars == <<sess, nat, sessOp>>
camVars == <<ui, thr, shared>>
evalVars == <<evDet, evOp>>
prVars == <<pr>>
timerVars == <<tm>>
progVars == <<pwin, lrn>>
inspVars == <<insp, ifile>>
learnVars == <<job>>

vars == <<heap, boxes, boxErr, listFile, disk, mgr, mgrOp, mfile, mx, mxOp,
          sess, nat, sessOp, ui, thr, shared, evDet, evOp, pr, tm, pwin, lrn, insp, ifile, job>>

(***************************************************************************)
(* Generic helpers                                                         *)
(***************************************************************************)
\* the value v, computed once, handed to F (a local name bound to a value)
With(v, F(_)) == CHOOSE y \in {F(x) : x \in {v}} : TRUE

Min(a, b) == IF a <= b THEN a ELSE b
Max(a, b) == IF a >= b THEN a ELSE b

\* Python 3 round(): round half to even, applied to the exact rational n/d
RoundHalfEven(n, d) ==
    LET q == n \div d
        r == n % d
    IN  IF 2 * r < d THEN q
        ELSE IF 2 * r > d THEN q + 1
        ELSE IF q % 2 = 0 THEN q ELSE q + 1


(***************************************************************************)
(* Text: str.strip, startswith, character classes of the re module         *)
(***************************************************************************)
WS == {" ", "\t", "\n", "\r"}
DigitSeq == <<"0", "1", "2", "3", "4", "5", "6", "7", "8", "9">>
DigitSet == {DigitSeq[i] : i \in 1..10}
LetterSet == {"a", "b", "c", "d", "e", "f", "g", "h", "i", "j", "k", "l", "m",
              "n", "o", "p", "q", "r", "s", "t", "u", "v", "w", "x", "y", "z",
              "A", "B", "C", "D", "E", "F", "G", "H", "I", "J", "K", "L", "M",
              "N", "O", "P", "Q", "R", "S", "T", "U", "V", "W", "X", "Y", "Z"}
AlnumSet == LetterSet \cup DigitSet
QuoteSet == {"\""}

\* Python's None (no text consists of this one element)
None == <<"None">>

DigitVal(c) == CHOOSE d \in 0..9 : DigitSeq[d + 1] = c

\* first position q >= p at which membership in C stops being `member`
SpanEnd(s, p, C, member) ==
    CHOOSE q \in p..(Len(s) + 1) :
        /\ q = Len(s) + 1 \/ ((s[q] \in C) # member)
        /\ \A k \in p..(q - 1) : (s[k] \in C) = member

\* str.strip(chars)
StripSet(s, C) ==
    LET a == SpanEnd(s, 1, C, TRUE)
    IN  IF a > Len(s) THEN <<>>
        ELSE LET b == CHOOSE q \in a..Len(s) :
                          /\ s[q] \notin C
                          /\ \A k \in (q + 1)..Len(s) : s[k] \in C
             IN  SubSeq(s, a, b)

Strip(s) == StripSet(s, WS)

StartsWith(s, pre) == Len(s) >= Len(pre) /\ SubSeq(s, 1, Len(pre)) = pre

\* re.search(r'\s', s)
HasSpace(s) == \E i \in 1..Len(s) : s[i] \in WS

RECURSIVE Pow10(_)
Pow10(e) == IF e = 0 THEN 1 ELSE 10 * Pow10(e - 1)

RECURSIVE NatToStr(_)
NatToStr(n) ==
    IF n < 10 THEN <<DigitSeq[n + 1]>>
    ELSE NatToStr(n \div 10) \o <<DigitSeq[(n % 10) + 1]>>

RECURSIVE DigitsToNat(_)
DigitsToNat(s) ==
    IF s = <<>> THEN 0
    ELSE 10 * DigitsToNat(SubSeq(s, 1, Len(s) - 1)) + DigitVal(s[Len(s)])

AllDigits(s) == \A i \in 1..Len(s) : s[i] \in DigitSet

(***************************************************************************)
(* Python floats that have a short decimal representation are held as      *)
(* [neg, m, e], the value (-1)^neg * m * 10^-e with no trailing zero in m.  *)
(***************************************************************************)
RECURSIVE Normalize(_, _)
Normalize(m, e) ==
    IF e > 0 /\ m % 10 = 0 THEN Normalize(m \div 10, e - 1) ELSE <<m, e>>

MkNum(neg, m, e) ==
    LET n == Normalize(m, e) IN [neg |-> neg, m |-> n[1], e |-> n[2]]

Zero == [neg |-> FALSE, m |-> 0, e |-> 0]

\* == on Python floats: -0.0 equals 0.0
NumEq(a, b) == a.m = b.m /\ a.e = b.e /\ (a.neg = b.neg \/ a.m = 0)

\* float(text) for decimal literals: [sign] digits [. digits], digits . or . digits
ParseFloat(text) ==
    With(Strip(text), LAMBDA s :
        LET neg == s # <<>> /\ s[1] = "-"
            signed == s # <<>> /\ s[1] \in {"-", "+"}
        IN  With(IF signed THEN SubSeq(s, 2, Len(s)) ELSE s, LAMBDA body :
            With(SpanEnd(body, 1, {"."}, FALSE), LAMBDA dot :
                LET ip == SubSeq(body, 1, dot - 1)
                    fp == SubSeq(body, dot + 1, Len(body))
                IN  IF /\ AllDigits(ip) /\ AllDigits(fp)
                       /\ Len(ip) + Len(fp) > 0
                    THEN [ok |-> TRUE,
                          v |-> MkNum(neg, DigitsToNat(ip) * Pow10(Len(fp))
                                               + DigitsToNat(fp), Len(fp))]
                    ELSE [ok |-> FALSE, v |-> Zero])))

RECURSIVE ZeroPad(_, _)
ZeroPad(s, n) == IF Len(s) >= n THEN s ELSE ZeroPad(<<"0">> \o s, n)

\* '{}'.format(x) / repr(x) of a float: positional notation, and exponent
\* notation for values below 0.0001 (decimal exponent under -4)
FormatFloat(x) ==
    LET p == Pow10(x.e)
        ip == NatToStr(x.m \div p)
        fp == IF x.e = 0 THEN <<"0">> ELSE ZeroPad(NatToStr(x.m % p), x.e)
        digits == NatToStr(x.m)
        exp10 == Len(digits) - 1 - x.e
        mantissa == IF Len(digits) = 1 THEN digits
                    ELSE <<digits[1], ".">> \o Tail(digits)
    IN  (IF x.neg THEN <<"-">> ELSE <<>>)
        \o (IF x.m # 0 /\ exp10 < 0 - 4
            THEN mantissa \o <<"e", "-">> \o ZeroPad(NatToStr(0 - exp10), 2)
            ELSE ip \o <<".">> \o fp)

(***************************************************************************)
(* os.path on POSIX                                                        *)
(***************************************************************************)
IsAbs(p) == p # <<>> /\ p[1] = "/"

\* os.path.dirname
Dirname(p) ==
    LET i == IF \E k \in 1..Len(p) : p[k] = "/"
             THEN CHOOSE k \in 1..Len(p) :
                      p[k] = "/" /\ \A j \in (k + 1)..Len(p) : p[j] # "/"
             ELSE 0
        head == SubSeq(p, 1, i)
    IN  IF head # <<>> /\ \E k \in 1..Len(head) : head[k] # "/"
        THEN LET b == CHOOSE q \in 1..Len(head) :
                          head[q] # "/" /\ \A j \in (q + 1)..Len(head) : head[j] = "/"
             IN  SubSeq(head, 1, b)
        ELSE head

\* os.path.join(a, b)
PathJoin(a, b) ==
    IF IsAbs(b) THEN b
    ELSE IF a = <<>> \/ a[Len(a)] = "/" THEN a \o b
    ELSE a \o <<"/">> \o b

(***************************************************************************)
(* detecting.BoundingBox                                                   *)
(***************************************************************************)
MaxCoord == 1

\* values a caller assigns to an attribute
SetVals == (0 - 1)..MaxCoord
\* coordinates are capped to these ranges to keep the model finite
CoordRange == 0..MaxCoord
YRange == 0..1
\* argument lists of the four-argument constructor; the last one is not a rectangle
NewTuples == {<<0, 0, 0, 0>>, <<0, 0, MaxCoord, 1>>, <<1, 0, 1, 1>>, <<1, 1, 0, 1>>}
\* scale ratios as exact fractions <<numerator, denominator>>: 0.5, 1.0, 1.5, -1.0
Ratios == {<<1, 2>>, <<1, 1>>, <<3, 2>>, <<0 - 1, 1>>}
\* tuples a caller assigns to the coords attribute
CoordTuples == {<<0, 0, 1, 1>>, <<1, 0, 1, 1>>, <<1, 0, 0, 1>>}

BoxIds == {"a", "b"}
Refs == 1..4
NoList == <<>>
NoBox == [c |-> 0, a |-> 0]
EdgeNames == {"left", "top", "right", "bottom"}
AttrNames == EdgeNames \cup {"x", "y", "width", "height"}

\* the rectangle condition checked by the constructor and the coords setter
Ordered(l) == l[3] >= l[1] /\ l[4] >= l[2]

InRange(l) == l[1] \in CoordRange /\ l[3] \in CoordRange /\ l[2] \in YRange /\ l[4] \in YRange

\* lists reachable from a box object; everything else is garbage collected
Reachable(bx) == {bx[b].c : b \in BoxIds} \cup {bx[b].a : b \in BoxIds}

\* references are renumbered in the order a._coords, a.coords, b._coords, b.coords
\* (object identity matters, the number of a reference does not)
Slots(bx) == <<bx["a"].c, bx["a"].a, bx["b"].c, bx["b"].a>>

NewRef(bx, r) ==
    IF r = 0 THEN 0
    ELSE LET first == CHOOSE i \in 1..4 :
                          Slots(bx)[i] = r /\ \A j \in 1..(i - 1) : Slots(bx)[j] # r
         IN  Cardinality({Slots(bx)[j] : j \in 1..first} \ {0})

Collect(h, bx) ==
    [r \in Refs |-> IF \E o \in Reachable(bx) \ {0} : NewRef(bx, o) = r
                    THEN h[CHOOSE o \in Reachable(bx) \ {0} : NewRef(bx, o) = r]
                    ELSE NoList]

Renumber(bx) ==
    [b \in BoxIds |-> [c |-> NewRef(bx, bx[b].c), a |-> NewRef(bx, bx[b].a)]]

\* a reference not used by the boxes that survive the operation
FreshRef(bx, b) ==
    CHOOSE r \in Refs :
        /\ \A o \in BoxIds \ {b} : r # bx[o].c /\ r # bx[o].a
        /\ \A s \in Refs :
              (\A o \in BoxIds \ {b} : s # bx[o].c /\ s # bx[o].a) => r <= s

FreshRefKeep(bx) ==
    CHOOSE r \in Refs :
        /\ r \notin Reachable(bx)
        /\ \A s \in Refs : s \notin Reachable(bx) => r <= s

\* BoundingBox.__getattr__ / normal attribute lookup of "coords":
\* an instance attribute named coords shadows the computed one
CoordsRef(bx, b) == IF bx[b].a # 0 THEN bx[b].a ELSE bx[b].c

\* BoundingBox.__getattr__ for the computed attributes
GetAttr(h, bx, b, name) ==
    LET l == h[bx[b].c]
    IN  CASE name = "left" -> l[1]
          [] name = "top" -> l[2]
          [] name = "right" -> l[3]
          [] name = "bottom" -> l[4]
          [] name = "width" -> l[3] - l[1]
          [] name = "height" -> l[4] - l[2]

\* reading box.name: x and y are no instance attributes (__setattr__ keeps
\* them out of the instance dictionary), so __getattr__ decides
ReadAttr(h, bx, b, name) ==
    IF name \in EdgeNames \cup {"width", "height"}
    THEN [raised |-> "none", value |-> GetAttr(h, bx, b, name)]
    ELSE [raised |-> "AttributeError", value |-> 0]

\* the list that results from assigning value v to attribute name
SetAttrList(l, name, v) ==
    CASE name = "left" -> [l EXCEPT ![1] = v]
      [] name = "top" -> [l EXCEPT ![2] = v]
      [] name = "right" -> [l EXCEPT ![3] = v]
      [] name = "bottom" -> [l EXCEPT ![4] = v]
      [] name = "x" -> [l EXCEPT ![3] = l[3] + (v - l[1]), ![1] = v]
      [] name = "y" -> [l EXCEPT ![4] = l[4] + (v - l[2]), ![2] = v]
      [] name = "width" -> [l EXCEPT ![3] = l[1] + v]
      [] name = "height" -> [l EXCEPT ![4] = l[2] + v]

BoxInit ==
    /\ heap = [r \in Refs |-> NoList]
    /\ boxes = [b \in BoxIds |-> NoBox]
    /\ boxErr = "none"

\* BoundingBox(left, top, right, bottom): bound to variable b
BoxNew(b, l) ==
    /\ IF Ordered(l)
       THEN LET r == FreshRef(boxes, b)
                bx == [boxes EXCEPT ![b] = [c |-> r, a |-> 0]]
            IN  /\ boxes' = Renumber(bx)
                /\ heap' = Collect([heap EXCEPT ![r] = l], bx)
                /\ boxErr' = "none"
       ELSE /\ boxErr' = "TypeError"
            /\ UNCHANGED <<heap, boxes>>

\* BoundingBox(other): the new box takes other.coords itself, not a copy
BoxCopy(b, src) ==
    /\ b # src
    /\ boxes[src] # NoBox
    /\ LET r == CoordsRef(boxes, src)
           bx == [boxes EXCEPT ![b] = [c |-> r, a |-> 0]]
       IN  IF Ordered(heap[r])
           THEN /\ boxes' = Renumber(bx)
                /\ heap' = Collect(heap, bx)
                /\ boxErr' = "none"
           ELSE /\ boxErr' = "TypeError"
                /\ UNCHANGED <<heap, boxes>>

\* box.name = v for the eight scalar attributes: no ordering check
BoxSetAttr(b, name, v) ==
    /\ boxes[b] # NoBox
    /\ LET l == SetAttrList(heap[boxes[b].c], name, v)
       IN  /\ InRange(l)
           /\ heap' = [heap EXCEPT ![boxes[b].c] = l]
    /\ boxErr' = "none"
    /\ UNCHANGED boxes

\* box.coords = tuple: validated, then stored by object.__setattr__ as an
\* instance attribute named coords; _coords is not touched
BoxSetCoords(b, t) ==
    /\ boxes[b] # NoBox
    /\ IF Ordered(t)
       THEN LET r == FreshRefKeep([boxes EXCEPT ![b].a = 0])
                bx == [boxes EXCEPT ![b].a = r]
            IN  /\ boxes' = Renumber(bx)
                /\ heap' = Collect([heap EXCEPT ![r] = t], bx)
                /\ boxErr' = "none"
       ELSE /\ boxErr' = "TypeError"
            /\ UNCHANGED <<heap, boxes>>

\* dst = src.scale(num / den)
BoxScale(dst, src, ratio) ==
    /\ boxes[src] # NoBox
    /\ LET old == heap[CoordsRef(boxes, src)]
           l == [i \in 1..4 |-> RoundHalfEven(old[i] * ratio[1], ratio[2])]
       IN  /\ InRange(l)
           /\ IF Ordered(l)
              THEN LET r == FreshRef(boxes, dst)
                       bx == [boxes EXCEPT ![dst] = [c |-> r, a |-> 0]]
                   IN  /\ boxes' = Renumber(bx)
                       /\ heap' = Collect([heap EXCEPT ![r] = l], bx)
                       /\ boxErr' = "none"
              ELSE /\ boxErr' = "TypeError"
                   /\ UNCHANGED <<heap, boxes>>

\* the calls of a client: box a is constructed from coordinates and may have its
\* coords attribute assigned, box b is constructed from box a (copy or scale)
BoxNext ==
    \/ \E l \in NewTuples : BoxNew("a", l)
    \/ BoxCopy("b", "a")
    \/ \E b \in BoxIds, n \in AttrNames, v \in SetVals : BoxSetAttr(b, n, v)
    \/ \E t \in CoordTuples : BoxSetCoords("a", t)
    \/ \E q \in Ratios : BoxScale("b", "a", q)


(***************************************************************************)
(* learning.ModelManager                                                   *)
(***************************************************************************)
MaxModels == 3

ListFileName == <<"/", "m", "/", "l">>
Cwd == <<"/", "w">>

\* lines found in list files
LineC4 == <<"#", "f", "o", "o", ".", "t", "x", "t", " ", "\"", "M", "y", " ", "C", "l", "a", "s", "s", "\"", " ", "0", ".", "5">>
LinePlain == <<"c", "a", "t", " ", "c", "a", "t", ".", "t", "x", "t", " ", "1", ".", "5", " ", "n", "0", "1">>
LineComment == <<"#", " ", "t", "h", "i", "s", " ", "i", "s", " ", "n", "o", "t", " ", "a", " ", "m", "o", "d", "e", "l">>
LineBad == <<"g", "a", "r", "b", "a", "g", "e">>
LineBlank == <<" ", " ">>
LinePool == {LineC4, LinePlain, LineComment, LineBad, LineBlank}

StrMyClass == <<"M", "y", " ", "C", "l", "a", "s", "s">>
StrFooTxt == <<"f", "o", "o", ".", "t", "x", "t">>

\* arguments of addModel calls: <<modelfile, classname, threshold, synsetId, disabled>>
AddAbsIn == <<"/", "m", "/", "d", ".", "t", "x", "t">>
AddAbsOut == <<"/", "x", "/", "e", ".", "t", "x", "t">>
ClsDog == <<"d", "o", "g">>
ClsBigDog == <<" ", "b", "i", "g", " ", "d", "o", "g">>
\* a threshold that repr writes in exponent notation: 1e-05
Tiny == MkNum(FALSE, 1, 5)
\* a file of the list file's directory, named with a doubled separator
AddAbsDouble == <<"/", "m", "/", "/", "d">>
AddPool == {<<AddAbsIn, ClsDog, Zero, None, FALSE>>,
            <<AddAbsOut, ClsBigDog, MkNum(FALSE, 25, 2), <<>>, TRUE>>,
            <<AddAbsDouble, ClsDog, Tiny, None, FALSE>>}

NoFile == [exists |-> FALSE, lines |-> <<>>]
NoMgr == [open |-> FALSE, models |-> <<>>]

\* the pieces of lineRE:
\*   ("[^"]+"|\S+)\s+("[^"]+"|\S+)\s+(-?[0-9]+(?:\.[0-9]+)?)(?:\s+([a-z0-9]+))?
\* each gives the position after the piece matched at p, or 0.
\* "[^"]+" : [^"]+ can only stop right before the next quote
QuotedEnd(s, p) ==
    IF p <= Len(s) /\ s[p] = "\""
    THEN LET q == SpanEnd(s, p + 1, QuoteSet, FALSE)
         IN  IF q > p + 1 /\ q <= Len(s) THEN q + 1 ELSE 0
    ELSE 0

\* \S+ followed by \s: only the whole run of non-blanks can be followed by a blank
NonSpaceEnd(s, p) ==
    IF p = 0 \/ p > Len(s) THEN 0
    ELSE LET q == SpanEnd(s, p, WS, FALSE) IN IF q > p THEN q ELSE 0

\* \s+ followed by a piece that starts with a non-blank
SpaceEnd(s, p) ==
    IF p = 0 \/ p > Len(s) THEN 0
    ELSE LET q == SpanEnd(s, p, WS, TRUE) IN IF q > p THEN q ELSE 0

\* -?[0-9]+(?:\.[0-9]+)?  (greedy; what follows it may always match empty)
NumberEnd(s, p) ==
    IF p = 0 \/ p > Len(s) THEN 0
    ELSE LET p1 == IF s[p] = "-" THEN p + 1 ELSE p
             q == SpanEnd(s, p1, DigitSet, TRUE)
         IN  IF q = p1 THEN 0
             ELSE IF q <= Len(s) /\ s[q] = "."
                  THEN LET q2 == SpanEnd(s, q + 1, DigitSet, TRUE)
                       IN  IF q2 > q + 1 THEN q2 ELSE q
                  ELSE q

\* (?:\s+([a-z0-9]+))? with re.I: group 4 or None
SynsetGroup(s, p) ==
    LET w == SpaceEnd(s, p)
    IN  IF w = 0 THEN None
        ELSE LET q == SpanEnd(s, w, AlnumSet, TRUE)
             IN  IF q > w THEN SubSeq(s, w, q - 1) ELSE None

GroupEnd(s, p, quoted) == IF quoted THEN QuotedEnd(s, p) ELSE NonSpaceEnd(s, p)

\* one way through the two alternations; ok tells whether the match succeeds
TryMatch(s, q1, q2) ==
    LET e1 == GroupEnd(s, 1, q1)
        b2 == SpaceEnd(s, e1)
        e2 == IF b2 = 0 THEN 0 ELSE GroupEnd(s, b2, q2)
        b3 == SpaceEnd(s, e2)
        e3 == NumberEnd(s, b3)
    IN  IF e1 = 0 \/ b2 = 0 \/ e2 = 0 \/ b3 = 0 \/ e3 = 0
        THEN [ok |-> FALSE, g1 |-> <<>>, g2 |-> <<>>, g3 |-> <<>>, g4 |-> None]
        ELSE [ok |-> TRUE,
              g1 |-> SubSeq(s, 1, e1 - 1),
              g2 |-> SubSeq(s, b2, e2 - 1),
              g3 |-> SubSeq(s, b3, e3 - 1),
              g4 |-> SynsetGroup(s, e3)]

\* lineRE.match(s): the quoted alternative is tried before \S+, group 1 before group 2
LineMatch(s) ==
    IF TryMatch(s, TRUE, TRUE).ok THEN TryMatch(s, TRUE, TRUE)
    ELSE IF TryMatch(s, TRUE, FALSE).ok THEN TryMatch(s, TRUE, FALSE)
    ELSE IF TryMatch(s, FALSE, TRUE).ok THEN TryMatch(s, FALSE, TRUE)
    ELSE TryMatch(s, FALSE, FALSE)

\* the dictionary appended for a matched line
EntryOf(info, disabled) ==
    [classname |-> StripSet(info.g1, QuoteSet),
     modelfile |-> StripSet(info.g2, QuoteSet),
     threshold |-> ParseFloat(info.g3).v,
     synsetId |-> info.g4,
     disabled |-> disabled]

\* as LineKind, but every line that starts with # is taken for a comment
LineKind_hashAlwaysComment(line) ==
    IF Strip(line) = <<>> THEN "skip"
    ELSE IF line[1] # "#"
         THEN IF LineMatch(Strip(line)).ok THEN "entry" ELSE "raise"
         ELSE "skip"

\* what one line of the file does: "skip", "raise" or "entry"
LineKind(line) ==
    IF Strip(line) = <<>> THEN "skip"
    ELSE IF line[1] # "#"
         THEN IF LineMatch(Strip(line)).ok THEN "entry" ELSE "raise"
         ELSE IF LineMatch(Strip(Tail(line))).ok THEN "entry" ELSE "skip"

LineEntry(line) ==
    IF line[1] # "#" THEN EntryOf(LineMatch(Strip(line)), FALSE)
    ELSE EntryOf(LineMatch(Strip(Tail(line))), TRUE)

\* ModelManager._readFile: the entries read, or the RuntimeError of a bad line
RECURSIVE ReadEntries(_)
ReadEntries(lines) ==
    IF lines = <<>> THEN <<>>
    ELSE IF LineKind(Head(lines)) = "entry"
         THEN <<LineEntry(Head(lines))>> \o ReadEntries(Tail(lines))
         ELSE ReadEntries(Tail(lines))

ReadListFile(lines) ==
    IF \E i \in 1..Len(lines) : LineKind(lines[i]) = "raise"
    THEN [ok |-> FALSE, models |-> <<>>]
    ELSE [ok |-> TRUE, models |-> ReadEntries(lines)]

Quoted(s) == IF HasSpace(s) THEN <<"\"">> \o s \o <<"\"">> ELSE s

\* the line ModelManager.save writes for one entry
FormatEntry(m) ==
    (IF m.disabled THEN <<"#">> ELSE <<>>)
    \o Quoted(m.classname) \o <<" ">> \o Quoted(m.modelfile) \o <<" ">>
    \o FormatFloat(m.threshold)
    \o (IF m.synsetId # None /\ m.synsetId # <<>> THEN <<" ">> \o m.synsetId ELSE <<>>)

\* the file ModelManager.save writes
WriteListFile(models) ==
    [exists |-> TRUE, lines |-> [i \in 1..Len(models) |-> FormatEntry(models[i])]]

\* ModelManager.getModelPath / the path deleteModel removes
ResolvePath(modelfile) ==
    IF IsAbs(modelfile) THEN modelfile ELSE PathJoin(Dirname(ListFileName), modelfile)

\* the modelfile addModel stores for the given argument
StoredPath(modelfile) ==
    LET abspath == IF IsAbs(modelfile) THEN modelfile ELSE PathJoin(Cwd, modelfile)
        dir == Dirname(ListFileName)
        basedir == IF dir[Len(dir)] \notin {"/", "\\"} THEN dir \o <<"/">> ELSE dir
    IN  IF StartsWith(abspath, basedir)
        THEN SubSeq(abspath, Len(basedir) + 1, Len(abspath))
        ELSE modelfile

RemoveAt(q, i) == SubSeq(q, 1, i - 1) \o SubSeq(q, i + 1, Len(q))

\* list files as they are found on storage: no line, one line of the pool,
\* or a line of the pool followed by an entry
InitialFiles ==
    {NoFile} \cup {[exists |-> TRUE, lines |-> l] :
                      l \in {<<>>} \cup {<<a>> : a \in LinePool}
                              \cup {<<a, b>> : a \in LinePool, b \in {LineC4, LinePlain}}}

\* the model files the entries of a list file refer to
FilesOf(f) ==
    LET r == ReadEntries(f.lines)
    IN  {ResolvePath(r[i].modelfile) : i \in 1..Len(r)}

ListInit ==
    /\ listFile \in InitialFiles
    /\ disk \in {FilesOf(listFile) \cup {AddAbsIn}, {}}
    /\ mgr = NoMgr
    /\ mgrOp = [name |-> "none", raised |-> "none", done |-> FALSE]

\* ModelManager(listfile)
MgrConstruct ==
    /\ mgr' = [open |-> TRUE,
               models |-> IF listFile.exists /\ ReadListFile(listFile.lines).ok
                          THEN ReadListFile(listFile.lines).models
                          ELSE <<>>]
    /\ mgrOp' = [name |-> "init", raised |-> "none", done |-> TRUE]
    /\ UNCHANGED <<listFile, disk>>

\* ModelManager.save()
MgrSave ==
    /\ mgr.open
    /\ listFile' = WriteListFile(mgr.models)
    /\ mgrOp' = [name |-> "save", raised |-> "none", done |-> TRUE]
    /\ UNCHANGED <<disk, mgr>>

\* ModelManager.addModel(modelfile, classname, threshold, synsetId, disabled)
MgrAddModel(a) ==
    /\ mgr.open
    /\ Len(mgr.models) < MaxModels
    /\ mgr' = [mgr EXCEPT !.models = Append(@,
                  [classname |-> Strip(a[2]),
                   modelfile |-> StoredPath(a[1]),
                   threshold |-> a[3],
                   synsetId |-> IF a[4] # <<>> THEN a[4] ELSE None,
                   disabled |-> a[5]])]
    /\ mgrOp' = [name |-> "add", raised |-> "none", done |-> TRUE]
    /\ UNCHANGED <<listFile, disk>>

\* as MgrDeleteModel, but without the call of save() at its end
MgrDeleteModel_noSave(i) ==
    /\ mgr.open
    /\ mgrOp' = [name |-> "delete", raised |-> "none",
                 done |-> (i >= 0 /\ i < Len(mgr.models))]
    /\ IF i >= 0 /\ i < Len(mgr.models)
       THEN /\ disk' = disk \ {ResolvePath(mgr.models[i + 1].modelfile)}
            /\ mgr' = [mgr EXCEPT !.models = RemoveAt(mgr.models, i + 1)]
            /\ UNCHANGED listFile
       ELSE UNCHANGED <<listFile, disk, mgr>>

\* ModelManager.deleteModel(modelIndex), modelIndex counted from 0
MgrDeleteModel(i) ==
    /\ mgr.open
    /\ mgrOp' = [name |-> "delete", raised |-> "none",
                 done |-> (i >= 0 /\ i < Len(mgr.models))]
    /\ IF i >= 0 /\ i < Len(mgr.models)
       THEN LET rest == RemoveAt(mgr.models, i + 1)
            IN  /\ disk' = disk \ {ResolvePath(mgr.models[i + 1].modelfile)}
                /\ mgr' = [mgr EXCEPT !.models = rest]
                /\ listFile' = WriteListFile(rest)
       ELSE UNCHANGED <<listFile, disk, mgr>>

\* the body of deleteModel on the manager's entries, the storage and the list file
DeleteModelFrom(st, i) ==
    IF i >= 0 /\ i < Len(st.models)
    THEN LET rest == RemoveAt(st.models, i + 1)
         IN  [models |-> rest,
              disk |-> st.disk \ {ResolvePath(st.models[i + 1].modelfile)},
              file |-> WriteListFile(rest)]
    ELSE st

\* as SortedReverse, but in ascending order
RECURSIVE SortedReverse_ascending(_)
SortedReverse_ascending(S) ==
    IF S = {} THEN <<>>
    ELSE LET least == CHOOSE x \in S : \A y \in S : x <= y
         IN  <<least>> \o SortedReverse_ascending(S \ {least})

\* sorted(..., reverse = True)
RECURSIVE SortedReverse(_)
SortedReverse(S) ==
    IF S = {} THEN <<>>
    ELSE LET greatest == CHOOSE x \in S : \A y \in S : y <= x
         IN  <<greatest>> \o SortedReverse(S \ {greatest})

\* for index in indices: self.modelManager.deleteModel(index)
RECURSIVE DeleteEach(_, _)
DeleteEach(st, indices) ==
    IF indices = <<>> THEN st
    ELSE DeleteEach(DeleteModelFrom(st, Head(indices)), Tail(indices))

\* CatalogueWindow.deleteSelectedModels, confirmed by the user; selected holds
\* the modelIndex of the selected widgets (the button is disabled without one)
CatDeleteSelectedModels(selected) ==
    /\ mgr.open
    /\ selected # {}
    /\ selected \subseteq 0..(Len(mgr.models) - 1)
    /\ LET o == DeleteEach([models |-> mgr.models, disk |-> disk, file |-> listFile],
                           SortedReverse(selected))
       IN  /\ mgr' = [mgr EXCEPT !.models = o.models]
           /\ disk' = o.disk
           /\ listFile' = o.file
    /\ mgrOp' = [name |-> "deleteSelected", raised |-> "none", done |-> TRUE,
                 selected |-> selected]

ListNext ==
    \/ MgrConstruct
    \/ MgrSave
    \/ \E a \in AddPool : MgrAddModel(a)
    \/ \E i \in (0 - 1)..MaxModels : MgrDeleteModel(i)
    \/ \E selected \in SUBSET (0..(MaxModels - 1)) : CatDeleteSelectedModels(selected)


(***************************************************************************)
(* learning.Model: the mixture file reader and writer                      *)
(***************************************************************************)
MaxComps == 2

\* str.split()
RECURSIVE Split(_)
Split(text) ==
    With(text, LAMBDA s :
    With(SpanEnd(s, 1, WS, TRUE), LAMBDA a :
        IF a > Len(s) THEN <<>>
        ELSE With(SpanEnd(s, a, WS, FALSE), LAMBDA b :
                 <<SubSeq(s, a, b - 1)>> \o Split(SubSeq(s, b, Len(s))))))

\* ' '.join(parts)
RECURSIVE JoinSp(_)
JoinSp(parts) ==
    IF parts = <<>> THEN <<>>
    ELSE IF Len(parts) = 1 THEN parts[1]
    ELSE parts[1] \o <<" ">> \o JoinSp(Tail(parts))

\* int(text) for decimal literals
ParseInt(text) ==
    With(Strip(text), LAMBDA s :
        LET signed == s # <<>> /\ s[1] \in {"-", "+"}
            body == IF signed THEN SubSeq(s, 2, Len(s)) ELSE s
        IN  IF body # <<>> /\ AllDigits(body)
            THEN [ok |-> TRUE,
                  v |-> IF s[1] = "-" THEN 0 - DigitsToNat(body) ELSE DigitsToNat(body)]
            ELSE [ok |-> FALSE, v |-> 0])

\* '{}'.format(i) of an int
FormatInt(i) == IF i < 0 THEN <<"-">> \o NatToStr(0 - i) ELSE NatToStr(i)

\* int(x) == x for a float x
IsIntegral(x) == x.e = 0

\* '{}'.format(feat if int(feat) != feat else int(feat))
FormatWeight(x) ==
    IF IsIntegral(x)
    THEN (IF x.neg /\ x.m # 0 THEN <<"-">> ELSE <<>>) \o NatToStr(x.m)
    ELSE FormatFloat(x)

StrOpen == <<"{", "s", "t", "r", "{">>
StrClose == <<"}", "s", "t", "r", "}">>

EndsWith(s, suf) ==
    Len(s) >= Len(suf) /\ SubSeq(s, Len(s) - Len(suf) + 1, Len(s)) = suf

\* the loop of _parseParameters that merges the tokens of a string value;
\* ss is stringStart (0 when unset), i the loop index, both counted from 1
RECURSIVE MergeStrings(_, _, _, _)
MergeStrings(tok0, isStr0, ss0, i0) ==
    With(<<tok0, isStr0, ss0, i0>>, LAMBDA q :
        LET tok == q[1]
            isStr == q[2]
            ss == q[3]
            i == q[4]
        IN  IF i > Len(tok) THEN [tok |-> tok, isStr |-> isStr]
            ELSE LET start == ss = 0 /\ StartsWith(tok[i], StrOpen)
                 IN  With(<<IF ss > 0 THEN [tok EXCEPT ![ss] = @ \o tok[i]] ELSE tok,
                            IF start THEN i ELSE ss,
                            IF start THEN [isStr EXCEPT ![i] = TRUE] ELSE isStr>>,
                          LAMBDA n :
                     LET tok1 == n[1]
                         ss1 == n[2]
                         isStr1 == n[3]
                     IN  IF ss1 > 0 /\ EndsWith(tok1[ss1], StrClose)
                         THEN MergeStrings(
                                  SubSeq(tok1, 1, ss1 - 1)
                                      \o <<SubSeq(tok1[ss1], 6, Len(tok1[ss1]) - 5)>>
                                      \o SubSeq(tok1, i + 1, Len(tok1)),
                                  isStr1, 0, ss1 + 1)
                         ELSE MergeStrings(tok1, isStr1, ss1, i + 1)))

\* the typed value of one parameter
ParamValue(text, isStr) ==
    IF isStr THEN [kind |-> "str", v |-> text]
    ELSE With(<<ParseInt(text), ParseFloat(text)>>, LAMBDA n :
             IF n[1].ok THEN [kind |-> "int", v |-> n[1].v]
             ELSE IF n[2].ok THEN [kind |-> "float", v |-> n[2].v]
             ELSE [kind |-> "str", v |-> text])

\* dict assignment: a later value for the same name replaces the earlier one in place
RECURSIVE DictSet(_, _, _)
DictSet(d, name, val) ==
    IF d = <<>> THEN <<[name |-> name, val |-> val]>>
    ELSE IF Head(d).name = name THEN <<[name |-> name, val |-> val]>> \o Tail(d)
    ELSE <<Head(d)>> \o DictSet(Tail(d), name, val)

RECURSIVE ParamDict(_, _, _, _)
ParamDict(tok, isStr, i, dict) ==
    With(dict, LAMBDA d :
        IF i > Len(tok) THEN d
        ELSE ParamDict(tok, isStr, i + 2,
                       DictSet(d, tok[i], ParamValue(tok[i + 1], isStr[i + 1]))))

\* Model._parseParameters
ParseParameters(paramLine) ==
    With(Split(paramLine), LAMBDA t :
    With(MergeStrings(t, [k \in 1..Len(t) |-> FALSE], 0, 1), LAMBDA mg :
        IF Len(mg.tok) % 2 # 0
        THEN [ok |-> FALSE, params |-> <<>>]
        ELSE [ok |-> TRUE, params |-> ParamDict(mg.tok, mg.isStr, 1, <<>>)]))

LineAt(lines, cur) == IF cur >= 1 /\ cur <= Len(lines) THEN lines[cur] ELSE <<>>

\* the loop  while line == "": line = file.readline().strip()
\* gives the index of the next non-blank line, or 0 when it never ends
NextNonBlank(lines, cur) ==
    IF \E k \in cur..Len(lines) : Strip(lines[k]) # <<>>
    THEN CHOOSE k \in cur..Len(lines) :
             Strip(lines[k]) # <<>> /\ \A j \in cur..(k - 1) : Strip(lines[j]) = <<>>
    ELSE 0

Fail == [ok |-> FALSE, v |-> <<>>, cur |-> 0]

\* one row of a part: cols * feats weights, cell by cell
ReadRow(line, cols, feats) ==
    With(Split(line), LAMBDA d :
    With([k \in 1..Len(d) |-> ParseFloat(d[k])], LAMBDA t :
        IF Len(t) < cols * feats \/ \E k \in 1..(cols * feats) : ~t[k].ok
        THEN Fail
        ELSE [ok |-> TRUE, cur |-> 0,
              v |-> [c \in 1..cols |-> [f \in 1..feats |-> t[(c - 1) * feats + f].v]]]))

RECURSIVE ReadRows(_, _, _, _, _)
ReadRows(lines, cur, rows, cols, feats) ==
    IF rows = 0 THEN [ok |-> TRUE, v |-> <<>>, cur |-> cur]
    ELSE With(ReadRow(LineAt(lines, cur), cols, feats), LAMBDA r :
             IF ~r.ok THEN Fail
             ELSE With(ReadRows(lines, cur + 1, rows - 1, cols, feats), LAMBDA rest :
                      IF ~rest.ok THEN Fail
                      ELSE [ok |-> TRUE, v |-> <<r.v>> \o rest.v, cur |-> rest.cur]))

\* one part: the line  rows cols features x y a b c d  and its rows
ReadPart(lines, at) ==
    With(<<at, Split(LineAt(lines, at))>>, LAMBDA q :
        LET cur == q[1]
            d == q[2]
        IN  IF Len(d) < 9 THEN Fail
            ELSE With(<<[k \in 1..5 |-> ParseInt(d[k])],
                        [k \in 1..4 |-> ParseFloat(d[5 + k])]>>, LAMBDA n :
                     IF \/ \E k \in 1..5 : ~n[1][k].ok
                        \/ \E k \in 1..4 : ~n[2][k].ok
                     THEN Fail
                     ELSE With(ReadRows(lines, cur + 1, Max(n[1][1].v, 0),
                                        Max(n[1][2].v, 0), Max(n[1][3].v, 0)),
                               LAMBDA data :
                              IF ~data.ok THEN Fail
                              ELSE [ok |-> TRUE, cur |-> data.cur,
                                    v |-> [data |-> data.v,
                                           offset |-> <<n[1][4].v, n[1][5].v>>,
                                           params |-> [k \in 1..4 |-> n[2][k].v]]])))

RECURSIVE ReadParts(_, _, _)
ReadParts(lines, cur, n) ==
    IF n <= 0 THEN [ok |-> TRUE, v |-> <<>>, cur |-> cur]
    ELSE With(ReadPart(lines, cur), LAMBDA p :
             IF ~p.ok THEN Fail
             ELSE With(ReadParts(lines, p.cur, n - 1), LAMBDA rest :
                      IF ~rest.ok THEN Fail
                      ELSE [ok |-> TRUE, v |-> <<p.v>> \o rest.v, cur |-> rest.cur]))

\* one mixture component: blank lines, the line  numParts bias  and the parts
ReadComponent(lines, cur) ==
    With(NextNonBlank(lines, cur), LAMBDA at :
    With(Split(LineAt(lines, at)), LAMBDA d :
        IF at = 0 \/ Len(d) < 2 THEN Fail
        ELSE With(<<ParseInt(d[1]), ParseFloat(d[2])>>, LAMBDA n :
                 IF ~n[2].ok \/ ~n[1].ok THEN Fail
                 ELSE With(ReadParts(lines, at + 1, n[1].v), LAMBDA parts :
                          IF ~parts.ok THEN Fail
                          ELSE [ok |-> TRUE, cur |-> parts.cur,
                                v |-> [bias |-> n[2].v, parts |-> parts.v]]))))

RECURSIVE ReadComponents(_, _, _)
ReadComponents(lines, cur, n) ==
    IF n <= 0 THEN [ok |-> TRUE, v |-> <<>>, cur |-> cur]
    ELSE With(ReadComponent(lines, cur), LAMBDA c :
             IF ~c.ok THEN Fail
             ELSE With(ReadComponents(lines, c.cur, n - 1), LAMBDA rest :
                      IF ~rest.ok THEN Fail
                      ELSE [ok |-> TRUE, v |-> <<c.v>> \o rest.v, cur |-> rest.cur]))

StrHOG == <<"H", "O", "G">>
StrCellSizeX == <<"c", "e", "l", "l", "S", "i", "z", "e", "X">>
StrCellSizeY == <<"c", "e", "l", "l", "S", "i", "z", "e", "Y">>
V1Parameters ==
    <<[name |-> StrCellSizeX, val |-> [kind |-> "int", v |-> 8]],
      [name |-> StrCellSizeY, val |-> [kind |-> "int", v |-> 8]]>>

NoModel == [formatVersion |-> 0, type |-> <<>>, parameters |-> <<>>, models |-> <<>>]

\* Model._readFile
ReadModel(file) ==
    With(file, LAMBDA lines :
    With(Strip(LineAt(lines, 1)), LAMBDA first :
    With(ParseInt(first), LAMBDA mixtures :
        IF mixtures.ok
        THEN With(ReadComponents(lines, 2, mixtures.v), LAMBDA cs :
                 [ok |-> cs.ok,
                  model |-> IF cs.ok
                            THEN [formatVersion |-> 1, type |-> StrHOG,
                                  parameters |-> V1Parameters, models |-> cs.v]
                            ELSE NoModel])
        ELSE With(<<ParseParameters(Strip(LineAt(lines, 2))), NextNonBlank(lines, 3)>>,
                  LAMBDA h :
             With(ParseInt(Strip(LineAt(lines, h[2]))), LAMBDA n :
             With(IF h[1].ok /\ h[2] # 0 /\ n.ok
                  THEN ReadComponents(lines, h[2] + 1, n.v) ELSE Fail, LAMBDA cs :
                 [ok |-> cs.ok,
                  model |-> IF cs.ok
                            THEN [formatVersion |-> 2, type |-> first,
                                  parameters |-> h[1].params, models |-> cs.v]
                            ELSE NoModel]))))))

\* '{} {}'.format(k, '{str{' + v + '}str}' if utils.is_str(v) else v)
FormatParam(p) ==
    p.name \o <<" ">> \o
        (CASE p.val.kind = "str" -> StrOpen \o p.val.v \o StrClose
           [] p.val.kind = "int" -> FormatInt(p.val.v)
           [] p.val.kind = "float" -> FormatFloat(p.val.v))

\* every weight is followed by a blank
RECURSIVE FormatCells(_)
FormatCells(ws) ==
    IF ws = <<>> THEN <<>>
    ELSE FormatWeight(Head(ws)) \o <<" ">> \o FormatCells(Tail(ws))

RECURSIVE Flatten(_)
Flatten(ss) == IF ss = <<>> THEN <<>> ELSE Head(ss) \o Flatten(Tail(ss))

AllZero(params) == \A k \in 1..4 : params[k].m = 0

\* as FormatPart, with the column count written before the row count
FormatPart_colsFirst(part) ==
    <<JoinSp(<<FormatInt(Len(part.data[1])),
               FormatInt(Len(part.data)),
               FormatInt(Len(part.data[1][1])),
               FormatInt(part.offset[1]), FormatInt(part.offset[2])>>
             \o [k \in 1..4 |-> IF AllZero(part.params) THEN <<"0">>
                                ELSE FormatFloat(part.params[k])])>>
    \o [r \in 1..Len(part.data) |-> FormatCells(Flatten(part.data[r]))]

\* the header line of a part and the lines of its rows
FormatPart(part) ==
    <<JoinSp(<<FormatInt(Len(part.data)),
               FormatInt(Len(part.data[1])),
               FormatInt(Len(part.data[1][1])),
               FormatInt(part.offset[1]), FormatInt(part.offset[2])>>
             \o [k \in 1..4 |-> IF AllZero(part.params) THEN <<"0">>
                                ELSE FormatFloat(part.params[k])])>>
    \o [r \in 1..Len(part.data) |-> FormatCells(Flatten(part.data[r]))]

\* the lines of one component, closed by an empty line
FormatComponent(c) ==
    <<FormatInt(Len(c.parts)) \o <<" ">> \o FormatFloat(c.bias)>>
    \o Flatten([k \in 1..Len(c.parts) |-> FormatPart(c.parts[k])])
    \o <<<<>>>>

\* the lines Model.save writes
WriteModel(m) ==
    (IF m.formatVersion > 1
     THEN <<m.type,
            JoinSp([k \in 1..Len(m.parameters) |-> FormatParam(m.parameters[k])]),
            <<>>>>
     ELSE <<>>)
    \o <<FormatInt(Len(m.models))>>
    \o Flatten([k \in 1..Len(m.models) |-> FormatComponent(m.models[k])])

\* 0.0, 1.0, -2.0, 0.5, 1.25, -0.25, 3.0 and so on
N(neg, m, e) == MkNum(neg, m, e)

ZeroParams == <<Zero, Zero, Zero, Zero>>

\* parts found in mixture files: 1x1x1, 1x2x2 and 2x1x1 weights
PartA == [data |-> <<<<<<N(FALSE, 1, 0)>>>>>>, offset |-> <<0, 0>>, params |-> ZeroParams]
PartB ==
    [data |-> <<<<<<N(FALSE, 5, 1), N(TRUE, 2, 0)>>, <<Zero, N(FALSE, 125, 2)>>>>>>,
     offset |-> <<1, 0 - 1>>,
     params |-> <<N(FALSE, 5, 1), Zero, N(TRUE, 1, 0), N(FALSE, 1, 2)>>]
PartC ==
    [data |-> <<<<<<N(TRUE, 25, 2)>>>>, <<<<N(FALSE, 30, 0)>>>>>>,
     offset |-> <<0 - 2, 13>>, params |-> ZeroParams]

CompPool ==
    <<[bias |-> N(TRUE, 15, 1), parts |-> <<PartB>>],
      [bias |-> N(FALSE, 75, 2), parts |-> <<PartA, PartC>>],
      [bias |-> Zero, parts |-> <<PartA>>]>>

\* the first n components of the pool, taken round and round
Components(n) == [k \in 1..n |-> CompPool[((k - 1) % Len(CompPool)) + 1]]

HeaderPool ==
    {[formatVersion |-> 1, type |-> StrHOG, parameters |-> V1Parameters],
     [formatVersion |-> 2, type |-> StrHOG, parameters |-> <<>>],
     [formatVersion |-> 2, type |-> StrHOG,
      parameters |-> <<[name |-> StrCellSizeX, val |-> [kind |-> "int", v |-> 8]],
                       [name |-> <<"n", "e", "t">>,
                        val |-> [kind |-> "str", v |-> <<"a", " ", "b">>]]>>]}

ModelPool ==
    {[formatVersion |-> h.formatVersion, type |-> h.type,
      parameters |-> h.parameters, models |-> Components(n)] :
        h \in HeaderPool, n \in 1..MaxComps}

\* a version-1 file in another layout: blank lines, 1.0 for 1, surplus blanks
HandFile ==
    <<<<"1">>, <<>>, <<"1", " ", "0", ".", "5">>,
      <<"1", " ", "2", " ", "1", " ", "0", " ", "0", " ", "0", " ", "0", " ", "0", " ", "0">>,
      <<" ", "1", ".", "0", " ", " ", "2", ".", "5", "0">>>>

\* a file that breaks off after the component line
BrokenFile == <<<<"1">>, <<"1", " ", "0", ".", "5">>>>

InitialModelFiles == {WriteModel(m) : m \in ModelPool} \cup {HandFile, BrokenFile}

\* values typed into the bias fields of the inspector
BiasVals == {Zero, N(TRUE, 5, 1)}

CodecInit ==
    /\ mfile \in InitialModelFiles
    /\ mx = NoModel
    /\ mxOp = [name |-> "none", raised |-> "none", done |-> FALSE]

\* Model(modelfile)
MdlLoad ==
    /\ LET r == ReadModel(mfile)
       IN  IF r.ok
           THEN /\ mx' = r.model
                /\ mxOp' = [name |-> "load", raised |-> "none", done |-> TRUE]
           ELSE /\ mx' = NoModel
                /\ mxOp' = [name |-> "load", raised |-> "Error", done |-> FALSE]
    /\ UNCHANGED mfile

\* model.models[i]['bias'] = float(text), as the component inspector does
MdlSetBias(i, v) ==
    /\ mx # NoModel
    /\ i \in 1..Len(mx.models)
    /\ mx' = [mx EXCEPT !.models[i].bias = v]
    /\ mxOp' = [name |-> "bias", raised |-> "none", done |-> TRUE]
    /\ UNCHANGED mfile

\* as MdlRemoveComponent, with  del self.models[compId]  not guarded by the range test
MdlRemoveComponent_unguarded(i) ==
    /\ mx # NoModel
    /\ LET n == Len(mx.models)
           k == IF i < 0 THEN n + i ELSE i
       IN  IF k >= 0 /\ k < n
           THEN /\ mx' = [mx EXCEPT !.models = RemoveAt(@, k + 1)]
                /\ mxOp' = [name |-> "remove", raised |-> "none", done |-> (i >= 0)]
           ELSE /\ mx' = mx
                /\ mxOp' = [name |-> "remove", raised |-> "IndexError", done |-> FALSE]
    /\ UNCHANGED mfile

\* Model.removeComponent(compId), compId counted from 0
MdlRemoveComponent(i) ==
    /\ mx # NoModel
    /\ mxOp' = [name |-> "remove", raised |-> "none",
                done |-> (i >= 0 /\ i < Len(mx.models))]
    /\ mx' = IF i >= 0 /\ i < Len(mx.models)
             THEN [mx EXCEPT !.models = RemoveAt(@, i + 1)]
             ELSE mx
    /\ UNCHANGED mfile

\* Model.save()
MdlSave ==
    /\ mx # NoModel
    /\ mfile' = WriteModel(mx)
    /\ mxOp' = [name |-> "save", raised |-> "none", done |-> TRUE]
    /\ UNCHANGED mx

CodecNext ==
    \/ MdlLoad
    \/ \E i \in 1..MaxComps, v \in BiasVals : MdlSetBias(i, v)
    \/ \E i \in (0 - 1)..MaxComps : MdlRemoveComponent(i)
    \/ MdlSave

(***************************************************************************)
(* detecting.Detector and learning.ModelLearner: the native handles        *)
(***************************************************************************)
MaxHandles == 2
MaxDestroy == 2
MaxLimit == 2

Kinds == {"detector", "learner"}
Handles == 1..MaxHandles
\* the limit argument of detect
LimitVals == (0 - 1)..MaxLimit
\* the number of detections the library leaves in buf_size
NativeCounts == 0..(MaxLimit + 1)
\* status codes of a native call: 0 for success, negative for an error
StatusCodes == {0, 0 - 1}

NoSession == [state |-> "none", handle |-> 0]
NoOp == [name |-> "none", kind |-> "none", raised |-> "none",
         limit |-> 0, count |-> 0, released |-> FALSE]

SessInit ==
    /\ sess = [k \in Kinds |-> NoSession]
    /\ nat = [next |-> 1, destroyed |-> [h \in Handles |-> 0]]
    /\ sessOp = NoOp

\* the number of destroy calls the library has seen for a handle
DestroyCalls(h) == IF h \in Handles THEN nat.destroyed[h] ELSE 0

\* the handle is passed to a native function after destroy was called on it
Released(h) == DestroyCalls(h) > 0

\* Detector(...) / ModelLearner(...): create_detector / create_learner return a
\* handle, or 0, which the errcheck turns into an exception before handle is set
SessCreate(k, ok) ==
    /\ sess[k].state = "none"
    /\ nat.next <= MaxHandles
    /\ IF ok
       THEN /\ sess' = [sess EXCEPT ![k] = [state |-> "live", handle |-> nat.next]]
            /\ nat' = [nat EXCEPT !.next = @ + 1]
            /\ sessOp' = [NoOp EXCEPT !.name = "create", !.kind = k]
       ELSE /\ sess' = [sess EXCEPT ![k] = [state |-> "failed", handle |-> 0]]
            /\ nat' = nat
            /\ sessOp' = [NoOp EXCEPT !.name = "create", !.kind = k,
                                      !.raised = IF k = "detector" THEN "MemoryError"
                                                 ELSE "LibARTOSException"]

\* the body of __del__: destroy_detector / destroy_learner on self.handle,
\* every exception swallowed (also the AttributeError of a missing handle)
DelBody(k) ==
    IF sess[k].handle # 0
    THEN /\ nat' = [nat EXCEPT !.destroyed[sess[k].handle] = @ + 1]
         /\ sessOp' = [NoOp EXCEPT !.name = "del", !.kind = k,
                                   !.released = Released(sess[k].handle)]
    ELSE /\ nat' = nat
         /\ sessOp' = [NoOp EXCEPT !.name = "del", !.kind = k]

\* obj.__del__() called by a client: the object stays
SessDel(k) ==
    /\ sess[k].state # "none"
    /\ DestroyCalls(sess[k].handle) < MaxDestroy
    /\ DelBody(k)
    /\ UNCHANGED sess

\* the interpreter finalizes the object when its last reference goes: __del__ once
SessFinalize(k) ==
    /\ sess[k].state # "none"
    /\ DestroyCalls(sess[k].handle) < MaxDestroy
    /\ DelBody(k)
    /\ sess' = [sess EXCEPT ![k] = NoSession]

\* the errcheck of a native function that returns a status code
Errcheck(rc) == IF rc < 0 THEN "LibARTOSException" ELSE "none"

\* Detector.addModel / addModels, ModelLearner.addPositiveSample / learn / ...:
\* one native call on self.handle, no test of the handle before it
SessCall(k, name, rc) ==
    /\ sess[k].state = "live"
    /\ sessOp' = [NoOp EXCEPT !.name = name, !.kind = k, !.raised = Errcheck(rc),
                              !.released = Released(sess[k].handle)]
    /\ UNCHANGED <<sess, nat>>

\* the size of the result buffer detect allocates for a limit
BufSize_defaultThree(limit) == IF limit < 1 THEN 3 ELSE limit

BufSize(limit) == IF limit < 1 THEN 1 ELSE limit

\* Detector.detect(img, limit) / detectOnFeatureDump: the library returns rc and
\* leaves n in buf_size; buf[i] raises IndexError beyond the allocated buffer
SessDetect(limit, rc, n) ==
    /\ sess["detector"].state = "live"
    /\ sessOp' = [NoOp EXCEPT !.name = "detect", !.kind = "detector",
                              !.limit = limit,
                              !.raised = IF rc < 0 THEN Errcheck(rc)
                                         ELSE IF n > BufSize(limit) THEN "IndexError"
                                         ELSE "none",
                              !.count = IF rc < 0 \/ n > BufSize(limit) THEN 0 ELSE n,
                              !.released = Released(sess["detector"].handle)]
    /\ UNCHANGED <<sess, nat>>

SessNext ==
    \/ \E k \in Kinds, ok \in BOOLEAN : SessCreate(k, ok)
    \/ \E k \in Kinds : SessDel(k)
    \/ \E k \in Kinds : SessFinalize(k)
    \/ \E rc \in StatusCodes : SessCall("detector", "addModel", rc)
    \/ \E rc \in StatusCodes : SessCall("detector", "evaluate", rc)
    \/ \E rc \in StatusCodes : SessCall("learner", "addPositiveSample", rc)
    \/ \E rc \in StatusCodes : SessCall("learner", "learn", rc)
    \/ \E l \in LimitVals, rc \in StatusCodes, n \in NativeCounts : SessDetect(l, rc, n)

(***************************************************************************)
(* GUI.CameraWindow: the UI thread and the detector thread                 *)
(***************************************************************************)
MaxDetectors == 2
MaxFiles == 2

\* what initializeDetector finds in the model directory
DirStates == {"missing", "empty", "list", "files"}
DeviceIndexes == {0 - 1, 0, 1}

CamInit ==
    /\ ui = [pc |-> "idle", ret |-> "idle", mode |-> "none", left |-> 0,
             made |-> 0, pending |-> 0, devIndex |-> 0 - 1, devOpen |-> FALSE,
             wantIndex |-> 0 - 1, numModels |-> 0, msg |-> "none"]
    /\ thr = "new"
    /\ shared = [lock |-> "none", detector |-> 0, inflight |-> {},
                 needNewFrame |-> FALSE, frameAvailable |-> FALSE,
                 detectionsAvailable |-> FALSE, terminateThread |-> FALSE,
                 detections |-> 0, detectionFrame |-> 0]

NativeOp(who, op, h) == [who |-> who, op |-> op, h |-> h]

\* initializeDetector, up to the lock, for window fields u: one of the error
\* dialogs and back to the caller (ret), or on to acquire
EnterInitialize(u, dir, ret) ==
    IF dir = "missing"
    THEN [u EXCEPT !.msg = "No model directory", !.pc = ret]
    ELSE IF dir = "empty"
    THEN [u EXCEPT !.msg = "No models found", !.pc = ret]
    ELSE [u EXCEPT !.pc = "acquire", !.ret = ret, !.mode = dir,
                   !.left = IF dir = "files" THEN MaxFiles ELSE 1,
                   !.msg = "none"]

\* the Set button and setModelDir: initializeDetector called from the event loop
UiInitialize(dir) ==
    /\ ui.pc = "idle"
    /\ ui.made < MaxDetectors
    /\ ui' = EnterInitialize(ui, dir, "idle")
    /\ UNCHANGED <<thr, shared>>

\* self.detectorLock.acquire(), taken without waiting for the lock to be free
UiAcquire_noWait ==
    /\ ui.pc = "acquire"
    /\ shared' = [shared EXCEPT !.lock = "ui"]
    /\ ui' = [ui EXCEPT !.pc = "destroy"]
    /\ UNCHANGED thr

\* self.detectorLock.acquire()
UiAcquire ==
    /\ ui.pc = "acquire"
    /\ shared.lock = "none"
    /\ shared' = [shared EXCEPT !.lock = "ui"]
    /\ ui' = [ui EXCEPT !.pc = "destroy"]
    /\ UNCHANGED thr

\* del self.detector: the last reference goes, __del__ calls destroy_detector
UiDestroyBegin ==
    /\ ui.pc = "destroy"
    /\ IF shared.detector # 0
       THEN /\ shared' = [shared EXCEPT
                  !.inflight = @ \cup {NativeOp("ui", "destroy", shared.detector)}]
            /\ ui' = [ui EXCEPT !.pc = "destroying"]
       ELSE /\ shared' = shared
            /\ ui' = [ui EXCEPT !.pc = "create"]
    /\ UNCHANGED thr

UiDestroyEnd ==
    /\ ui.pc = "destroying"
    /\ shared' = [shared EXCEPT
           !.inflight = @ \ {NativeOp("ui", "destroy", shared.detector)},
           !.detector = 0]
    /\ ui' = [ui EXCEPT !.pc = "create"]
    /\ UNCHANGED thr

\* detecting.Detector(): create_detector goes into flight
UiCreateBegin ==
    /\ ui.pc = "create"
    /\ shared' = [shared EXCEPT
           !.inflight = @ \cup {NativeOp("ui", "create", ui.made + 1)}]
    /\ ui' = [ui EXCEPT !.pc = "creating"]
    /\ UNCHANGED thr

\* create_detector returns: self.detector is bound, or the errcheck raises
UiCreateEnd(ok) ==
    /\ ui.pc = "creating"
    /\ shared' = [shared EXCEPT
           !.inflight = @ \ {NativeOp("ui", "create", ui.made + 1)},
           !.detector = IF ok THEN ui.made + 1 ELSE @]
    /\ ui' = [ui EXCEPT !.pc = IF ok THEN "add" ELSE "failed", !.made = @ + 1]
    /\ UNCHANGED thr

\* self.detector.addModels(modelList) or one self.detector.addModel(...)
UiAddBegin ==
    /\ ui.pc = "add"
    /\ shared' = [shared EXCEPT
           !.inflight = @ \cup {NativeOp("ui", "addModel", shared.detector)}]
    /\ ui' = [ui EXCEPT !.pc = "adding"]
    /\ UNCHANGED thr

UiAddEnd(rc) ==
    /\ ui.pc = "adding"
    /\ shared' = [shared EXCEPT
           !.inflight = @ \ {NativeOp("ui", "addModel", shared.detector)}]
    /\ ui' = [ui EXCEPT !.pc = IF rc < 0 THEN "failed"
                               ELSE IF ui.left > 1 THEN "add" ELSE "diff",
                        !.left = @ - 1,
                        !.numModels = IF rc < 0 \/ ui.left > 1 THEN @
                                      ELSE IF ui.mode = "files" THEN MaxFiles ELSE 1]
    /\ UNCHANGED thr

\* self.detector.differentFeatureExtractors()
UiDiffBegin ==
    /\ ui.pc = "diff"
    /\ shared' = [shared EXCEPT
           !.inflight = @ \cup {NativeOp("ui", "numFeatureExtractors", shared.detector)}]
    /\ ui' = [ui EXCEPT !.pc = "diffing"]
    /\ UNCHANGED thr

UiDiffEnd(rc) ==
    /\ ui.pc = "diffing"
    /\ shared' = [shared EXCEPT
           !.inflight = @ \ {NativeOp("ui", "numFeatureExtractors", shared.detector)}]
    /\ ui' = [ui EXCEPT !.pc = IF rc < 0 THEN "failed" ELSE "release"]
    /\ UNCHANGED thr

\* except Exception: showerror, self.detector = None.  A detector that was
\* created loses its last reference when the traceback is dropped: at the end
\* of the except block, or (late) when initializeDetector returns
UiFailed(late) ==
    /\ ui.pc = "failed"
    /\ shared' = [shared EXCEPT !.detector = 0]
    /\ ui' = [ui EXCEPT !.msg = "Detector initialization failed",
                        !.pending = shared.detector,
                        !.pc = IF shared.detector # 0 /\ ~late
                               THEN "dropping" ELSE "release"]
    /\ UNCHANGED thr

\* __del__ of the dropped detector: destroy_detector goes into flight
UiDropBegin ==
    /\ ui.pc \in {"dropping", "lateDropping"}
    /\ ui.pending # 0
    /\ NativeOp("ui", "destroy", ui.pending) \notin shared.inflight
    /\ shared' = [shared EXCEPT
           !.inflight = @ \cup {NativeOp("ui", "destroy", ui.pending)}]
    /\ UNCHANGED <<ui, thr>>

UiDropEnd ==
    /\ ui.pc \in {"dropping", "lateDropping"}
    /\ NativeOp("ui", "destroy", ui.pending) \in shared.inflight
    /\ shared' = [shared EXCEPT
           !.inflight = @ \ {NativeOp("ui", "destroy", ui.pending)}]
    /\ ui' = [ui EXCEPT !.pending = 0,
                        !.pc = IF ui.pc = "dropping" THEN "release" ELSE ui.ret,
                        !.ret = IF ui.pc = "dropping" THEN @ ELSE "idle"]
    /\ UNCHANGED thr

\* self.detectorLock.release(), and the return of initializeDetector
UiRelease ==
    /\ ui.pc = "release"
    /\ shared' = [shared EXCEPT !.lock = "none"]
    /\ ui' = IF ui.pending # 0
             THEN [ui EXCEPT !.pc = "lateDropping"]
             ELSE [ui EXCEPT !.pc = ui.ret, !.ret = "idle"]
    /\ UNCHANGED thr

\* changeDevice(deviceIndex): stop a running capture; a negative index closes,
\* another one initializes the detector if there is none
UiChangeDevice(d, dir) ==
    /\ ui.pc = "idle"
    /\ ui.devIndex # d
    /\ IF d < 0
       THEN ui' = [ui EXCEPT !.devIndex = 0 - 1, !.devOpen = FALSE]
       ELSE IF shared.detector = 0
       THEN /\ ui.made < MaxDetectors
            /\ ui' = EnterInitialize([ui EXCEPT !.devOpen = FALSE, !.wantIndex = d],
                                     dir, "capture")
       ELSE ui' = [ui EXCEPT !.devOpen = FALSE, !.wantIndex = d, !.pc = "capture"]
    /\ UNCHANGED <<thr, shared>>

\* changeDevice after the detector is there: start the thread, open the device.
\* Thread.start() on a thread that has ended raises RuntimeError
UiStartCapture ==
    /\ ui.pc = "capture"
    /\ IF shared.detector = 0
       THEN /\ ui' = [ui EXCEPT !.pc = "idle"]
            /\ thr' = thr
       ELSE IF thr = "dead"
       THEN /\ ui' = [ui EXCEPT !.pc = "idle", !.msg = "RuntimeError"]
            /\ thr' = thr
       ELSE /\ ui' = [ui EXCEPT !.pc = "idle", !.devIndex = ui.wantIndex,
                                !.devOpen = TRUE]
            /\ thr' = IF thr = "new" THEN "started" ELSE thr
    /\ UNCHANGED shared

\* frame.copy(): an image that is not the one detectionFrame holds
FrameCopy(held) == IF held = 1 THEN 2 ELSE 1

\* as UiPollVideoFrame, handing a frame over whether or not one was asked for
UiPollVideoFrame_unasked ==
    /\ ui.pc = "idle"
    /\ ui.devOpen
    /\ shared' = [shared EXCEPT
           !.detectionsAvailable = FALSE,
           !.needNewFrame = FALSE,
           !.detectionFrame = FrameCopy(@),
           !.frameAvailable = TRUE]
    /\ UNCHANGED <<ui, thr>>

\* pollVideoFrame with a frame grabbed: take new detections, hand over a frame
UiPollVideoFrame ==
    /\ ui.pc = "idle"
    /\ ui.devOpen
    /\ shared.detectionsAvailable \/ shared.needNewFrame
    /\ shared' = [shared EXCEPT
           !.detectionsAvailable = FALSE,
           !.needNewFrame = FALSE,
           !.detectionFrame = IF shared.needNewFrame THEN FrameCopy(@) ELSE @,
           !.frameAvailable = IF shared.needNewFrame THEN TRUE ELSE @]
    /\ UNCHANGED <<ui, thr>>

\* onDestroy: terminateThread.set() and join() if the thread is alive
UiOnDestroy ==
    /\ ui.pc = "idle"
    /\ IF thr \notin {"new", "dead"}
       THEN /\ shared' = [shared EXCEPT !.terminateThread = TRUE]
            /\ ui' = [ui EXCEPT !.pc = "joining"]
       ELSE /\ shared' = shared
            /\ ui' = [ui EXCEPT !.pc = "closed", !.devOpen = FALSE]
    /\ UNCHANGED thr

\* join() returns when the thread has ended; the capture is stopped
UiJoined ==
    /\ ui.pc = "joining"
    /\ thr = "dead"
    /\ ui' = [ui EXCEPT !.pc = "closed", !.devOpen = FALSE]
    /\ UNCHANGED <<thr, shared>>

\* detect_threaded: self.needNewFrame.set()
ThBegin ==
    /\ thr = "started"
    /\ shared' = [shared EXCEPT !.needNewFrame = TRUE]
    /\ thr' = "loop"
    /\ UNCHANGED ui

\* while not self.terminateThread.is_set()
ThLoop ==
    /\ thr = "loop"
    /\ thr' = IF shared.terminateThread THEN "dead" ELSE "wait"
    /\ UNCHANGED <<ui, shared>>

\* self.frameAvailable.wait(1): the event, or the timeout; then clear()
ThWait ==
    /\ thr = "wait"
    /\ IF shared.frameAvailable
       THEN /\ shared' = [shared EXCEPT !.frameAvailable = FALSE]
            /\ thr' = "acquire"
       ELSE /\ shared' = shared
            /\ thr' = "loop"
    /\ UNCHANGED ui

\* self.detectorLock.acquire()
ThAcquire ==
    /\ thr = "acquire"
    /\ shared.lock = "none"
    /\ shared' = [shared EXCEPT !.lock = "thread"]
    /\ thr' = "detect"
    /\ UNCHANGED ui

\* self.detector.detect(self.detectionFrame): the native call goes into flight;
\* with self.detector None the AttributeError ends the thread (finally: release)
ThDetectBegin ==
    /\ thr = "detect"
    /\ IF shared.detector = 0
       THEN /\ shared' = [shared EXCEPT !.lock = "none"]
            /\ thr' = "dead"
       ELSE /\ shared' = [shared EXCEPT
                  !.inflight = @ \cup {NativeOp("thread", "detect", shared.detector)}]
            /\ thr' = "detecting"
    /\ UNCHANGED ui

\* the native call returns: the result is stored, or the exception of the
\* errcheck ends the thread; finally: self.detectorLock.release()
ThDetectEnd(rc, n) ==
    /\ thr = "detecting"
    /\ shared' = [shared EXCEPT
           !.inflight = {o \in @ : o.who # "thread"},
           !.detections = IF rc < 0 THEN @ ELSE n,
           !.lock = "none"]
    /\ thr' = IF rc < 0 THEN "dead" ELSE "publish"
    /\ UNCHANGED ui

\* self.detectionsAvailable.set(); self.needNewFrame.set()
ThPublish ==
    /\ thr = "publish"
    /\ shared' = [shared EXCEPT !.detectionsAvailable = TRUE, !.needNewFrame = TRUE]
    /\ thr' = "loop"
    /\ UNCHANGED ui

CamNext ==
    \/ \E dir \in DirStates : UiInitialize(dir)
    \/ UiAcquire
    \/ UiDestroyBegin
    \/ UiDestroyEnd
    \/ UiCreateBegin
    \/ \E ok \in BOOLEAN : UiCreateEnd(ok)
    \/ UiAddBegin
    \/ \E rc \in StatusCodes : UiAddEnd(rc)
    \/ UiDiffBegin
    \/ \E rc \in StatusCodes : UiDiffEnd(rc)
    \/ \E late \in BOOLEAN : UiFailed(late)
    \/ UiDropBegin
    \/ UiDropEnd
    \/ UiRelease
    \/ \E d \in DeviceIndexes, dir \in DirStates : UiChangeDevice(d, dir)
    \/ UiStartCapture
    \/ UiPollVideoFrame
    \/ UiOnDestroy
    \/ UiJoined
    \/ ThBegin
    \/ ThLoop
    \/ ThWait
    \/ ThAcquire
    \/ ThDetectBegin
    \/ \E rc \in StatusCodes, n \in 0..1 : ThDetectEnd(rc, n)
    \/ ThPublish

(***************************************************************************)
(* Detector.evaluate, getRawEvaluationResults and the error checks of the  *)
(* native boundary                                                         *)
(***************************************************************************)
MaxEvalModels == 2

\* libartos result codes
RES_INVALID_HANDLE == 0 - 1
RES_INDEX_OUT_OF_BOUNDS == 0 - 6
RES_INTERNAL_ERROR == 0 - 999
DETECT_RES_NO_RESULTS == 0 - 107
\* a negative status without an entry in LibARTOSException.errmsgs
UnlistedCode == 0 - 7

\* the keys of LibARTOSException.errmsgs
KnownCodes ==
    {0 - k : k \in (1..6) \cup {999} \cup (101..109) \cup (201..206)
                   \cup (301..303) \cup (401..403)}

\* what a native call may return inside the range of its index argument
ErrorPool == {RES_INVALID_HANDLE, DETECT_RES_NO_RESULTS, RES_INTERNAL_ERROR, UnlistedCode}
CodePool == {0} \cup ErrorPool

\* minimum overlap in percent: of the constructor and of evaluate
OverlapVals == {25, 50}

NoExc == [exc |-> "none", errcode |-> 0, msg |-> FALSE]

\* raise LibARTOSException(errcode): __init__ looks the message up in errmsgs
Raise(errcode) ==
    IF errcode \in KnownCodes
    THEN [exc |-> "LibARTOSException", errcode |-> errcode, msg |-> TRUE]
    ELSE [exc |-> "KeyError", errcode |-> 0, msg |-> FALSE]

\* _errcheck_common
ErrcheckCommon(result) == IF result < 0 THEN Raise(result) ELSE NoExc

\* _errcheck_num_fe
ErrcheckNumFe(result) == IF result < 0 THEN Raise(RES_INVALID_HANDLE) ELSE NoExc

NoCall ==
    [name |-> "none", status |-> 0, exc |-> NoExc, results |-> <<>>,
     eqOverlap |-> 0, ranWith |-> 0, codes |-> <<>>, diverges |-> FALSE]

EvInit ==
    /\ evDet \in [overlap : OverlapVals, models : {0}]
    /\ evOp = NoCall

\* Detector.addModel: add_model through _errcheck_common
EvAddModel(rc) ==
    /\ evDet.models < MaxEvalModels
    /\ evDet' = IF rc < 0 THEN evDet ELSE [evDet EXCEPT !.models = @ + 1]
    /\ evOp' = [NoCall EXCEPT !.name = "addModel", !.status = rc,
                              !.exc = ErrcheckCommon(rc)]

\* Detector.differentFeatureExtractors: through _errcheck_num_fe
EvDifferentFeatureExtractors(rc) ==
    /\ evOp' = [NoCall EXCEPT !.name = "differentFeatureExtractors", !.status = rc,
                              !.exc = ErrcheckNumFe(rc)]
    /\ UNCHANGED evDet

\* the status of a native getter for model index i (from 0): inside the range
\* the code the library gives for that model, beyond it index out of bounds
StatusAt(codes, i) == IF i < Len(codes) THEN codes[i + 1] ELSE RES_INDEX_OUT_OF_BOUNDS

\* getResultsForModel(mi): the size query and the fetch, both evaluator_get_raw_results
GetResultsForModel(codes, mi) ==
    With(StatusAt(codes, mi), LAMBDA rc :
        IF rc < 0 THEN [status |-> rc, exc |-> ErrcheckCommon(rc), v |-> <<>>]
        ELSE [status |-> rc, exc |-> NoExc, v |-> <<"raw", mi>>])

\* as EndsIteration, with every error of the library taken as the end
EndsIteration_anyError(e) == e.exc = "LibARTOSException"

\* except LibARTOSException as e: if e.errcode == RES_INDEX_OUT_OF_BOUNDS: i = -1
EndsIteration(e) == e.exc = "LibARTOSException" /\ e.errcode = RES_INDEX_OUT_OF_BOUNDS

\* the loop of getRawEvaluationResults over i = 0, 1, ...
RECURSIVE RawLoop(_, _, _)
RawLoop(codes, i, results) ==
    With(GetResultsForModel(codes, i), LAMBDA r :
        IF r.exc.exc = "none" THEN RawLoop(codes, i + 1, Append(results, r.v))
        ELSE IF EndsIteration(r.exc)
        THEN [status |-> 0, exc |-> NoExc, results |-> results]
        ELSE [status |-> r.status, exc |-> r.exc, results |-> <<>>])

\* Detector.getRawEvaluationResults() without a model index
EvGetRawResults(codes) ==
    /\ evOp' = With(RawLoop(codes, 0, <<>>), LAMBDA r :
                   [NoCall EXCEPT !.name = "getRawEvaluationResults",
                                  !.status = r.status, !.exc = r.exc,
                                  !.results = r.results, !.codes = codes])
    /\ UNCHANGED evDet

\* Detector.getRawEvaluationResults(modelIndex) with modelIndex >= 0
EvGetRawResultsFor(codes, mi) ==
    /\ evOp' = With(GetResultsForModel(codes, mi), LAMBDA r :
                   [NoCall EXCEPT !.name = "getRawEvaluationResultsFor",
                                  !.status = r.status, !.exc = r.exc,
                                  !.results = r.v, !.codes = codes])
    /\ UNCHANGED evDet

\* the parameters of the registered evaluator_run prototype
EvaluatorRunParams == <<"detector", "granularity", "progress_cb">>

\* the arguments evaluate passes to libartos.evaluator_run
EvaluatorRunArgs(eqOverlap) == <<"handle", "granularity", eqOverlap, "cb">>

\* the loop of evaluate over i = 0, 1, ...: three getters per model; on
\* DETECT_RES_NO_RESULTS the same index is tried again
RECURSIVE EvalLoop(_, _, _)
EvalLoop(codes, i, results) ==
    With(StatusAt(codes, i), LAMBDA rc :
    With(ErrcheckCommon(rc), LAMBDA e :
        IF e.exc = "none" THEN EvalLoop(codes, i + 1, Append(results, <<"dict", i>>))
        ELSE IF EndsIteration(e)
        THEN [status |-> 0, exc |-> NoExc, results |-> results, diverges |-> FALSE]
        ELSE IF e.exc = "LibARTOSException" /\ e.errcode = DETECT_RES_NO_RESULTS
        THEN [status |-> rc, exc |-> NoExc, results |-> <<>>, diverges |-> TRUE]
        ELSE [status |-> rc, exc |-> e, results |-> <<>>, diverges |-> FALSE]))

\* Detector.evaluate(granularity, eqOverlap, progressCallback): a foreign
\* function with paramflags takes exactly as many arguments as it has parameters
EvEvaluate(eqOverlap, runRc, codes) ==
    /\ evOp' =
         IF Len(EvaluatorRunArgs(eqOverlap)) # Len(EvaluatorRunParams)
         THEN [NoCall EXCEPT !.name = "evaluate", !.eqOverlap = eqOverlap,
                             !.codes = codes,
                             !.exc = [exc |-> "TypeError", errcode |-> 0, msg |-> TRUE]]
         ELSE IF runRc < 0
         THEN [NoCall EXCEPT !.name = "evaluate", !.eqOverlap = eqOverlap,
                             !.codes = codes, !.ranWith = eqOverlap,
                             !.status = runRc, !.exc = ErrcheckCommon(runRc)]
         ELSE With(EvalLoop(codes, 0, <<>>), LAMBDA r :
                  [NoCall EXCEPT !.name = "evaluate", !.eqOverlap = eqOverlap,
                                 !.codes = codes, !.ranWith = eqOverlap,
                                 !.status = r.status, !.exc = r.exc,
                                 !.results = r.results, !.diverges = r.diverges])
    /\ UNCHANGED evDet

\* the codes the getters give for the models of the detector, one per model
GetterCodes == [1..evDet.models -> CodePool]

EvNext ==
    \/ \E rc \in CodePool : EvAddModel(rc)
    \/ \E rc \in CodePool : EvDifferentFeatureExtractors(rc)
    \/ \E codes \in GetterCodes : EvGetRawResults(codes)
    \/ \E codes \in GetterCodes, mi \in 0..MaxEvalModels : EvGetRawResultsFor(codes, mi)
    \/ \E q \in OverlapVals, rc \in CodePool, codes \in GetterCodes :
           EvEvaluate(q, rc, codes)

(***************************************************************************)
(* GUI.Evaluation.EvaluationVisualization: recall-precision pairs          *)
(***************************************************************************)
MaxResults == 3
MaxPos == 2
MaxFP == 1

\* Python floats that are quotients of small integers are kept as exact
\* fractions [n, d] in lowest terms with d > 0: two such quotients are the
\* same float exactly if they are the same fraction
RECURSIVE Gcd(_, _)
Gcd(a, b) == IF b = 0 THEN a ELSE Gcd(b, a % b)

Abs(a) == IF a < 0 THEN 0 - a ELSE a

Rat(n, d) ==
    With(Gcd(Abs(n), Abs(d)), LAMBDA g :
        IF d < 0 THEN [n |-> (0 - n) \div g, d |-> (0 - d) \div g]
        ELSE [n |-> n \div g, d |-> d \div g])

RatAdd(a, b) == Rat(a.n * b.d + b.n * a.d, a.d * b.d)
RatSub(a, b) == Rat(a.n * b.d - b.n * a.d, a.d * b.d)
RatMul(a, b) == Rat(a.n * b.n, a.d * b.d)
RatDiv(a, b) == Rat(a.n * b.d, a.d * b.n)
RatLess(a, b) == a.n * b.d < b.n * a.d
RatMax(a, b) == IF RatLess(a, b) THEN b ELSE a

\* thresholds in tenths, as the positions of a result list carry them
ThresholdsUp == <<1, 5, 9, 13>>
ThresholdsDown == <<9, 5, 1, 0 - 3>>

\* raw results of one model: the counts of a threshold sweep over np
\* positive samples; a higher threshold keeps no more detections
RawResult(th, tp, fp, np) == [threshold |-> th, tp |-> tp, fp |-> fp, np |-> np]

Counts(np) == (0..np) \X (0..MaxFP)

Sweeps(np, len) ==
    {c \in [1..len -> Counts(np)] :
        \A i \in 1..(len - 1) : c[i][1] >= c[i + 1][1] /\ c[i][2] >= c[i + 1][2]}

RawPool ==
    UNION {UNION {{[i \in 1..len |-> RawResult(ThresholdsUp[i], c[i][1], c[i][2], np)],
                   [i \in 1..len |->
                       RawResult(ThresholdsDown[i], c[len + 1 - i][1], c[len + 1 - i][2], np)]} :
                     c \in Sweeps(np, len)} :
              <<np, len>> \in (0..MaxPos) \X (0..MaxResults)}

\* line 434: p and r of one raw result
RawPrecision(result) == Rat(result.tp, result.tp + result.fp)
RawRecall(result) == Rat(result.tp, result.np)

\* the division of line 434 or 435 has a zero divisor
DividesByZero(result) ==
    \/ result.tp + result.fp = 0
    \/ result.np = 0
    \/ result.tp = 0

F1(p, r) == RatDiv(RatMul(Rat(2, 1), RatMul(p, r)), RatAdd(p, r))

NoValue == [n |-> 0, d |-> 0]

\* results = { 'recall' : [], 'precision' : [], 'maxFMeasure' : 0.0, 'fMeasure0' : -1.0 }
NewResults ==
    [recall |-> <<>>, precision |-> <<>>, maxPrecision |-> Rat(0, 1),
     maxFMeasure |-> Rat(0, 1), maxFMeasureTh |-> "none",
     fMeasure0 |-> Rat(0 - 1, 1), precision0 |-> NoValue, recall0 |-> NoValue,
     ap |-> NoValue]

\* line 437: a new point of the curve is appended
AppendsPoint(recall, r) ==
    \/ Len(recall) = 0
    \/ r # recall[Len(recall)]
    \/ Len(recall) > 1 /\ recall[Len(recall)] # recall[Len(recall) - 1]

\* line 440: the last point of the curve is overwritten
OverwritesPoint(recall) ==
    Len(recall) > 1 /\ recall[Len(recall)] = recall[Len(recall) - 1]

\* the body of the loop over raw_results, lines 434-448
ProcessResult(res, result) ==
    With(<<RawPrecision(result), RawRecall(result)>>, LAMBDA pr_ :
    With(<<pr_[1], pr_[2], F1(pr_[1], pr_[2]), RatMax(res.maxPrecision, pr_[1])>>, LAMBDA v :
    With(IF AppendsPoint(res.recall, v[2])
         THEN [res EXCEPT !.maxPrecision = v[4],
                          !.precision = Append(@, v[4]),
                          !.recall = Append(@, v[2])]
         ELSE IF OverwritesPoint(res.recall)
         THEN [res EXCEPT !.maxPrecision = v[4],
                          !.precision[Len(res.precision)] = v[4]]
         ELSE [res EXCEPT !.maxPrecision = v[4]], LAMBDA a :
    With(IF RatLess(a.maxFMeasure, v[3])
         THEN [a EXCEPT !.maxFMeasure = v[3], !.maxFMeasureTh = result.threshold]
         ELSE a, LAMBDA b :
        IF result.threshold >= 0 /\ RatLess(b.fMeasure0, Rat(0, 1))
        THEN [b EXCEPT !.fMeasure0 = v[3], !.precision0 = v[1], !.recall0 = v[2]]
        ELSE b))))

\* the loop over raw_results; "failed" is the ZeroDivisionError of a division
RECURSIVE Curve(_, _, _)
Curve(raw, i, res) ==
    IF i > Len(raw) THEN [failed |-> FALSE, res |-> res]
    ELSE IF DividesByZero(raw[i]) THEN [failed |-> TRUE, res |-> res]
    ELSE Curve(raw, i + 1, ProcessResult(res, raw[i]))

\* as ApTerm, with the precision of the point before the step
ApTerm_precisionBefore(recall, precision, i) ==
    IF recall[i] # recall[i - 1]
    THEN RatMul(RatSub(recall[i - 1], recall[i]), precision[i - 1])
    ELSE Rat(0, 1)

\* lines 453-454: what the step from point i - 1 to point i adds
ApTerm(recall, precision, i) ==
    IF recall[i] # recall[i - 1]
    THEN RatMul(RatSub(recall[i - 1], recall[i]), precision[i])
    ELSE Rat(0, 1)

\* lines 452-454: for i in range(1, len(recall)), the lists counted from 1
RECURSIVE ApSum(_, _, _, _)
ApSum(recall, precision, i, ap) ==
    IF i > Len(recall) THEN ap
    ELSE ApSum(recall, precision, i + 1, RatAdd(ap, ApTerm(recall, precision, i)))

\* lines 451-455
AveragePrecision(recall, precision) ==
    ApSum(recall, precision, 2,
          RatMul(recall[Len(recall)], precision[Len(precision)]))

\* the loop over self.models; the first exception ends the call
RECURSIVE ProcessModels(_, _, _)
ProcessModels(models, k, results) ==
    IF k > Len(models) THEN [raised |-> "none", results |-> results]
    ELSE With(Curve(models[k], 1, NewResults), LAMBDA c :
             IF c.failed
             THEN [raised |-> "ZeroDivisionError", results |-> results]
             ELSE IF c.res.recall = <<>>
             THEN [raised |-> "IndexError", results |-> results]
             ELSE ProcessModels(models, k + 1,
                      Append(results,
                          [c.res EXCEPT !.ap = AveragePrecision(c.res.recall, c.res.precision)])))

PrInit == pr = [called |-> FALSE, models |-> <<>>, raised |-> "none", results |-> <<>>]

\* EvaluationVisualization._processResults() on self.models, called once,
\* by the constructor of the window
PrProcessResults(models) ==
    /\ ~pr.called
    /\ pr' = With(ProcessModels(models, 1, <<>>), LAMBDA o :
                 [called |-> TRUE, models |-> models,
                  raised |-> o.raised, results |-> o.results])

PrNext ==
    \E raw \in RawPool : PrProcessResults(<<raw>>)

(***************************************************************************)
(* utils.Timer                                                             *)
(***************************************************************************)
MaxRunsLimit == 2
MaxDuration == 2
MaxMeasurements == 3

\* values given for maxRuns, to the constructor and to the property
RunLimits == (0 - 1)..MaxRunsLimit
\* t - self._start: the time between a start and the stop that follows it
Durations == 1..MaxDuration

\* Timer(maxRuns): _maxRuns is taken as given, then reset()
TmInit ==
    tm \in [maxRuns : RunLimits, measurements : {<<>>}, running : {FALSE}]

\* del l[0:k] of Python: a negative k counts from the end of the list
DelSlice(l, k) ==
    With(IF k < 0 THEN Max(Len(l) + k, 0) ELSE Min(k, Len(l)), LAMBDA stop :
        SubSeq(l, stop + 1, Len(l)))

\* the body of Timer.stop() for a running timer, lines 212-215
Stopped(t, d) ==
    With(Append(t.measurements, d), LAMBDA l :
        [t EXCEPT !.measurements =
                      IF t.maxRuns > 0 /\ Len(l) > t.maxRuns THEN DelSlice(l, 1) ELSE l,
                  !.running = FALSE])

\* Timer.stop()
TmStop(d) ==
    /\ tm.running => Len(Stopped(tm, d).measurements) <= MaxMeasurements
    /\ tm' = IF tm.running THEN Stopped(tm, d) ELSE tm

\* Timer.start(ignoreIfRunning)
TmStart(ignoreIfRunning, d) ==
    /\ tm.running => Len(Stopped(tm, d).measurements) <= MaxMeasurements
    /\ tm' = IF ~tm.running \/ ~ignoreIfRunning
             THEN [(IF tm.running THEN Stopped(tm, d) ELSE tm) EXCEPT !.running = TRUE]
             ELSE tm

\* Timer.reset()
TmReset ==
    tm' = [tm EXCEPT !.measurements = <<>>, !.running = FALSE]

\* Timer.maxRuns = value
TmSetMaxRuns(value) ==
    tm' = With(IF value < 0 THEN 0 ELSE value, LAMBDA v :
              [tm EXCEPT !.maxRuns = v,
                         !.measurements =
                             IF v > 0 /\ v > Len(@) THEN DelSlice(@, Len(@) - v) ELSE @])

TmNext ==
    \/ \E d \in Durations : TmStop(d)
    \/ \E i \in BOOLEAN, d \in Durations : TmStart(i, d)
    \/ TmReset
    \/ \E v \in RunLimits : TmSetMaxRuns(v)

(***************************************************************************)
(* GUI.gui_utils.ProgressWindow and the learning threads of                *)
(* GUI.ModelCatalogue.LearnDialog                                          *)
(***************************************************************************)
MaxSub == 1
MaxSubCalls == 1

\* len(subProcessDescriptions) of the windows LearnDialog.learn creates
NumDescriptions == 3
\* maximum of a progress bar in indeterminate mode
IndeterminateMaximum == 40

NewBar == [mode |-> "indeterminate", maximum |-> IndeterminateMaximum, value |-> 0]

NoWindow ==
    [exists |-> FALSE, threaded |-> FALSE, current |-> 0, total |-> 0,
     subCurrent |-> 0, subTotal |-> 0, overall |-> NewBar, sub |-> NewBar,
     desc |-> 0 - 1, afterPending |-> FALSE, writers |-> {}]

\* ProgressWindow(..., threadedCallbacks): the poll is scheduled with after()
\* only for threadedCallbacks; desc -1 is the text 'Initializing...'
NewWindow(threadedCallbacks) ==
    [NoWindow EXCEPT !.exists = TRUE, !.threaded = threadedCallbacks,
                     !.afterPending = threadedCallbacks]

NoJob ==
    [mode |-> "none", thOpt |-> FALSE, ui |-> "idle", alive |-> FALSE, pc |-> 0,
     subs |-> 0, inCallback |-> FALSE, error |-> FALSE]

ProgInit == pwin = NoWindow /\ lrn = NoJob

\* one progress bar in _updateValues, lines 285-295 and 298-308
UpdateBar(bar, total, current) ==
    With(IF total # bar.maximum
         THEN IF total > 0
              THEN [bar EXCEPT !.mode = "determinate", !.maximum = total]
              ELSE [bar EXCEPT !.mode = "indeterminate", !.maximum = IndeterminateMaximum]
         ELSE bar, LAMBDA b :
        IF total > 0 THEN [b EXCEPT !.value = current] ELSE b)

\* ProgressWindow._updateValues() run by thread who: the widgets are set
\* from the stored values under the lock, then the poll is scheduled again
UpdateValues(w, who) ==
    [w EXCEPT !.overall = UpdateBar(w.overall, w.total, w.current),
              !.desc = IF w.total > 0
                       THEN (IF w.current < NumDescriptions THEN w.current
                             ELSE NumDescriptions)
                       ELSE @,
              !.sub = UpdateBar(w.sub, w.subTotal, w.subCurrent),
              !.writers = @ \cup {who},
              !.afterPending = w.threaded]

\* the `with self.lock` block of changeProgress(current, total, subCurrent,
\* subTotal); an argument that is None is the empty sequence
StoreProgress(w, current, total, subCurrent, subTotal) ==
    [w EXCEPT !.total = IF total # <<>> THEN total[1] ELSE @,
              !.current = current,
              !.subTotal = IF subTotal # <<>> THEN subTotal[1] ELSE @,
              !.subCurrent = subCurrent]

\* the `with self.lock` block of changeSubProgress(current, total)
StoreSubProgress(w, current, total) ==
    [w EXCEPT !.subTotal = IF total # <<>> THEN total[1] ELSE @,
              !.subCurrent = current]

\* LearnDialog.learn, in-situ mode: the progress window is created without
\* threadedCallbacks and the thread _learnThreadedInSitu is started
UiLearnInSitu(thOpt) ==
    /\ lrn.ui = "idle"
    /\ pwin' = NewWindow(FALSE)
    /\ lrn' = [NoJob EXCEPT !.mode = "insitu", !.thOpt = thOpt, !.ui = "waiting",
                            !.alive = TRUE]

\* LearnDialog.learn, ImageNet mode: threadedCallbacks = True, thread
\* _learnThreadedImageNet
UiLearnImageNet(thOpt) ==
    /\ lrn.ui = "idle"
    /\ pwin' = NewWindow(TRUE)
    /\ lrn' = [NoJob EXCEPT !.mode = "imagenet", !.thOpt = thOpt, !.ui = "waiting",
                            !.alive = TRUE]

\* self.update() in the loop `while self.thread.is_alive()`: the scheduled
\* _updateValues runs in the UI thread
UiUpdate ==
    /\ lrn.ui = "waiting"
    /\ lrn.alive
    /\ pwin.afterPending
    /\ pwin' = UpdateValues(pwin, "ui")
    /\ UNCHANGED lrn

\* the thread has ended: progressDialog.destroy()
UiFinish ==
    /\ lrn.ui = "waiting"
    /\ ~lrn.alive
    /\ pwin' = NoWindow
    /\ lrn' = NoJob

\* number of steps of the overall progress: 2 without threshold optimization
Steps(j) == IF j.thOpt THEN 3 ELSE 2

SubValues == 0..MaxSub

\* the worker calls progressCallback at the start of a step: pc 0 with the
\* total, later steps without it (in-situ) or with all four values (ImageNet)
WkChangeProgress ==
    /\ lrn.alive /\ ~lrn.inCallback
    /\ lrn.pc <= Steps(lrn)
    /\ pwin' = IF lrn.mode = "insitu"
               THEN StoreProgress(pwin, lrn.pc,
                        IF lrn.pc = 0 THEN <<Steps(lrn)>> ELSE <<>>, 0, <<0>>)
               ELSE StoreProgress(pwin, lrn.pc, <<Steps(lrn)>>, 0, <<0>>)
    /\ lrn' = [lrn EXCEPT !.inCallback = TRUE, !.pc = @ + 1, !.subs = 0]

\* during learn() and optimizeThreshold() the library reports the progress
\* of the step: changeSubProgress in-situ, all four values for ImageNet
WkChangeSubProgress(c, t) ==
    /\ lrn.alive /\ ~lrn.inCallback
    /\ lrn.pc \in 2..Steps(lrn)
    /\ lrn.subs < MaxSubCalls
    /\ c <= t
    /\ pwin' = IF lrn.mode = "insitu"
               THEN StoreSubProgress(pwin, c, <<t>>)
               ELSE StoreProgress(pwin, lrn.pc - 1, <<Steps(lrn)>>, c, <<t>>)
    /\ lrn' = [lrn EXCEPT !.inCallback = TRUE, !.subs = @ + 1]

\* the rest of changeProgress / changeSubProgress after the lock is
\* released: `if not self.threadedCallbacks: self._updateValues()`
WkCallbackReturn ==
    /\ lrn.alive /\ lrn.inCallback
    /\ pwin' = IF ~pwin.threaded THEN UpdateValues(pwin, "worker") ELSE pwin
    /\ lrn' = [lrn EXCEPT !.inCallback = FALSE]

\* learner.save(modelfile) after the last step: the thread ends
WkSave ==
    /\ lrn.alive /\ ~lrn.inCallback
    /\ lrn.pc = Steps(lrn) + 1
    /\ lrn' = [lrn EXCEPT !.alive = FALSE]
    /\ UNCHANGED pwin

\* an exception of the learner: stored in _error, the thread ends
WkError ==
    /\ lrn.alive /\ ~lrn.inCallback
    /\ lrn' = [lrn EXCEPT !.alive = FALSE, !.error = TRUE]
    /\ UNCHANGED pwin

ProgNext ==
    \/ \E o \in BOOLEAN : UiLearnInSitu(o)
    \/ \E o \in BOOLEAN : UiLearnImageNet(o)
    \/ UiUpdate
    \/ UiFinish
    \/ WkChangeProgress
    \/ \E c \in SubValues, t \in SubValues : WkChangeSubProgress(c, t)
    \/ WkCallbackReturn
    \/ WkSave
    \/ WkError

(***************************************************************************)
(* GUI.ModelCatalogue.HOGInspector: removing components, editing the bias  *)
(* values and applying the changes to the model file                       *)
(***************************************************************************)
NoInsp ==
    [open |-> FALSE, model |-> NoModel, biasTextVars |-> <<>>, hogFrames |-> <<>>,
     loaded |-> 0, refused |-> FALSE,
     op |-> [name |-> "none", raised |-> "none", done |-> FALSE]]

\* texts typed into a bias field
BiasTexts == {<<"-", "0", ".", "5">>, <<"x">>}

InspInit ==
    /\ ifile \in InitialModelFiles
    /\ insp = NoInsp

\* ModelWidget.showInspector: readModel, then HOGInspector(self, model) with
\* one frame, one Remove button and one bias field per component;
\* loaded and refused are history: the number of components at that moment,
\* and whether a Remove click has been turned down since
InspShow ==
    /\ ~insp.open
    /\ insp' = With(ReadModel(ifile), LAMBDA r :
           IF r.ok
           THEN [open |-> TRUE, model |-> r.model,
                 biasTextVars |-> [k \in 1..Len(r.model.models) |->
                                      FormatFloat(r.model.models[k].bias)],
                 hogFrames |-> [k \in 1..Len(r.model.models) |-> k - 1],
                 loaded |-> Len(r.model.models), refused |-> FALSE,
                 op |-> [name |-> "show", raised |-> "none", done |-> TRUE]]
           ELSE [insp EXCEPT !.op = [name |-> "show", raised |-> "Exception",
                                     done |-> FALSE]])
    /\ UNCHANGED ifile

\* the user edits the bias field of frame k
InspTypeBias(k, text) ==
    /\ insp.open
    /\ k \in 1..Len(insp.biasTextVars)
    /\ insp' = [insp EXCEPT !.biasTextVars[k] = text]
    /\ UNCHANGED ifile

\* Model.removeComponent on the inspector's mixture
RemoveComponent(models, compId) ==
    IF compId >= 0 /\ compId < Len(models) THEN RemoveAt(models, compId + 1) ELSE models

\* the frames left after the one at modelIndex is destroyed, buttons renumbered
FramesWithout(hogFrames, modelIndex) ==
    [i \in 1..Len(RemoveAt(hogFrames, modelIndex + 1)) |-> i - 1]

\* as InspRemoveBtnClick, without the test for more than one component
InspRemoveBtnClick_lastToo(k) ==
    /\ insp.open
    /\ k \in 1..Len(insp.hogFrames)
    /\ LET modelIndex == insp.hogFrames[k]
       IN  insp' = [insp EXCEPT
                       !.model.models = RemoveComponent(@, modelIndex),
                       !.hogFrames = FramesWithout(@, modelIndex),
                       !.biasTextVars = RemoveAt(@, modelIndex + 1),
                       !.op = [name |-> "remove", raised |-> "none", done |-> TRUE]]
    /\ UNCHANGED ifile

\* HOGInspector.onRemoveBtnClick for the Remove button of frame k; the
\* binding is on the button release, which a disabled button receives too
InspRemoveBtnClick(k) ==
    /\ insp.open
    /\ k \in 1..Len(insp.hogFrames)
    /\ LET modelIndex == insp.hogFrames[k]
       IN  IF Len(insp.model.models) > 1
           THEN insp' = [insp EXCEPT
                            !.model.models = RemoveComponent(@, modelIndex),
                            !.hogFrames = FramesWithout(@, modelIndex),
                            !.biasTextVars = RemoveAt(@, modelIndex + 1),
                            !.op = [name |-> "remove", raised |-> "none", done |-> TRUE]]
           ELSE insp' = [insp EXCEPT
                            !.refused = TRUE,
                            !.op = [name |-> "remove", raised |-> "none", done |-> FALSE]]
    /\ UNCHANGED ifile

\* zip(self.biasTextVars, self.model.models): the number of pairs
Pairs(i) == Min(Len(i.biasTextVars), Len(i.model.models))

\* the first pair whose text float() rejects, or 0
FirstInvalid(i) ==
    IF \E k \in 1..Pairs(i) : ~ParseFloat(i.biasTextVars[k]).ok
    THEN CHOOSE k \in 1..Pairs(i) :
             /\ ~ParseFloat(i.biasTextVars[k]).ok
             /\ \A j \in 1..(k - 1) : ParseFloat(i.biasTextVars[j]).ok
    ELSE 0

\* the mixture after the assignments of the first n pairs
WithBiases(i, n) ==
    [i.model EXCEPT !.models =
        [k \in 1..Len(i.model.models) |->
            IF k <= n THEN [i.model.models[k] EXCEPT !.bias = ParseFloat(i.biasTextVars[k]).v]
            ELSE i.model.models[k]]]

\* HOGInspector.apply: the bias values, save and destroy; a ValueError of
\* float() ends the loop, is reported and leaves the window open
InspApply ==
    /\ insp.open
    /\ IF FirstInvalid(insp) = 0
       THEN /\ ifile' = WriteModel(WithBiases(insp, Pairs(insp)))
            /\ insp' = [insp EXCEPT
                           !.open = FALSE,
                           !.model = WithBiases(insp, Pairs(insp)),
                           !.op = [name |-> "apply", raised |-> "none", done |-> TRUE]]
       ELSE /\ insp' = [insp EXCEPT
                           !.model = WithBiases(insp, FirstInvalid(insp) - 1),
                           !.op = [name |-> "apply", raised |-> "ValueError",
                                   done |-> FALSE]]
            /\ UNCHANGED ifile

\* the window is closed without applying
InspDestroy ==
    /\ insp.open
    /\ insp' = [insp EXCEPT !.open = FALSE,
                            !.op = [name |-> "destroy", raised |-> "none", done |-> TRUE]]
    /\ UNCHANGED ifile

InspNext ==
    \/ InspShow
    \/ \E k \in 1..MaxComps, text \in BiasTexts : InspTypeBias(k, text)
    \/ \E k \in 1..MaxComps : InspRemoveBtnClick(k)
    \/ InspApply
    \/ InspDestroy

(***************************************************************************)
(* GUI.ModelCatalogue.LearnDialog: in-situ learning in a thread of its own *)
(***************************************************************************)
MaxSamples == 2

\* learning.ModelLearner.THOPT_NONE and THOPT_LOOCV, the two modes the dialog uses
ThOptModes == {"THOPT_NONE", "THOPT_LOOCV"}

NoLearning ==
    [pc |-> "idle", samples |-> 0, thOptMode |-> "THOPT_NONE", added |-> 0,
     calls |-> <<>>, error |-> "none", saved |-> FALSE, modelfile |-> "none"]

LtInit == job = NoLearning

\* LearnDialog.learn with samples taken: the thread is started and the UI
\* thread waits in `while self.thread.is_alive()`; the thread begins with
\* self._error = None
LtStart(n, mode) ==
    /\ job.pc = "idle"
    /\ n > 0
    /\ job' = [NoLearning EXCEPT !.pc = "create", !.samples = n, !.thOptMode = mode,
                                 !.modelfile = "chosen"]

\* as Raised, but the thread goes on with the statement after the one that raised
Raised_goesOn(j, exc) == [j EXCEPT !.error = exc]

\* an exception inside the try block: except Exception as e: self._error = e,
\* and the thread function returns
Raised(j, exc) == [j EXCEPT !.error = exc, !.pc = "ended"]

\* the learner call made at position pc, and the position after it
CallAt(j) ==
    CASE j.pc = "create" -> "create"
      [] j.pc = "add" -> "addPositiveSample"
      [] j.pc = "learn" -> "learn"
      [] j.pc = "optimize" -> "optimizeThreshold"
      [] j.pc = "save" -> "save"

AfterCall(j) ==
    CASE j.pc = "create" -> "callback0"
      [] j.pc = "add" -> IF j.added + 1 < j.samples THEN "add" ELSE "callback1"
      [] j.pc = "learn" -> "callback2"
      [] j.pc = "optimize" -> "callback3"
      [] j.pc = "save" -> "ended"

\* the position after progressCallback(k)
AfterCallback(j) ==
    CASE j.pc = "callback0" -> "add"
      [] j.pc = "callback1" -> "learn"
      [] j.pc = "callback2" -> IF j.thOptMode # "THOPT_NONE" THEN "optimize" ELSE "save"
      [] j.pc = "callback3" -> "save"

\* ModelLearner(...), addPositiveSample, learn, optimizeThreshold or save,
\* with the status rc of the native function behind it
LtCall(rc) ==
    /\ job.pc \in {"create", "add", "learn", "optimize", "save"}
    /\ job' = With([job EXCEPT !.calls = Append(@, CallAt(job))], LAMBDA j :
                 IF rc < 0 THEN Raised(j, "LibARTOSException")
                 ELSE [j EXCEPT !.pc = AfterCall(job),
                                !.added = IF job.pc = "add" THEN @ + 1 ELSE @,
                                !.saved = (job.pc = "save")])

\* progressCallback(k): changeProgress of the progress window, which may raise
LtProgressCallback(ok) ==
    /\ job.pc \in {"callback0", "callback1", "callback2", "callback3"}
    /\ job' = IF ok THEN [job EXCEPT !.pc = AfterCallback(job)]
              ELSE Raised(job, "RuntimeError")

\* the UI thread after the thread has ended: `if self._error:` the error is
\* shown and modelfile = None; else the dialog reports the learned model file
LtThreadEnded ==
    /\ job.pc = "ended"
    /\ job' = [job EXCEPT !.pc = "reported",
                          !.modelfile = IF job.error # "none" THEN "none" ELSE @]

\* the dialog is used again
LtAgain ==
    /\ job.pc = "reported"
    /\ job' = NoLearning

LtNext ==
    \/ \E n \in 1..MaxSamples, mode \in ThOptModes : LtStart(n, mode)
    \/ \E rc \in StatusCodes : LtCall(rc)
    \/ \E ok \in BOOLEAN : LtProgressCallback(ok)
    \/ LtThreadEnded
    \/ LtAgain

(***************************************************************************)
(* Specifications                                                          *)
(***************************************************************************)
BoxIdle ==
    /\ heap = [r \in Refs |-> NoList]
    /\ boxes = [b \in BoxIds |-> NoBox]
    /\ boxErr = "none"

ListIdle ==
    /\ listFile = NoFile
    /\ disk = {}
    /\ mgr = NoMgr
    /\ mgrOp = [name |-> "none", raised |-> "none", done |-> FALSE]

CodecIdle ==
    /\ mfile = <<>>
    /\ mx = NoModel
    /\ mxOp = [name |-> "none", raised |-> "none", done |-> FALSE]

SessIdle == SessInit
CamIdle == CamInit
EvIdle == evDet = [overlap |-> 50, models |-> 0] /\ evOp = NoCall
PrIdle == PrInit
TmIdle == tm = [maxRuns |-> 0, measurements |-> <<>>, running |-> FALSE]
ProgIdle == ProgInit
InspIdle == insp = NoInsp /\ ifile = <<>>
LtIdle == job = NoLearning

InitBox == BoxInit /\ ListIdle /\ CodecIdle /\ SessIdle /\ CamIdle /\ EvIdle /\ PrIdle /\ TmIdle /\ ProgIdle /\ InspIdle /\ LtIdle
SpecBox ==
    InitBox /\ [][BoxNext /\ UNCHANGED <<listVars, codecVars, sessVars, camVars, evalVars, prVars, timerVars, progVars, inspVars, learnVars>>]_vars

InitList == ListInit /\ BoxIdle /\ CodecIdle /\ SessIdle /\ CamIdle /\ EvIdle /\ PrIdle /\ TmIdle /\ ProgIdle /\ InspIdle /\ LtIdle
SpecList ==
    InitList /\ [][ListNext /\ UNCHANGED <<boxVars, codecVars, sessVars, camVars, evalVars, prVars, timerVars, progVars, inspVars, learnVars>>]_vars

InitCodec == CodecInit /\ BoxIdle /\ ListIdle /\ SessIdle /\ CamIdle /\ EvIdle /\ PrIdle /\ TmIdle /\ ProgIdle /\ InspIdle /\ LtIdle
SpecCodec ==
    InitCodec /\ [][CodecNext /\ UNCHANGED <<boxVars, listVars, sessVars, camVars, evalVars, prVars, timerVars, progVars, inspVars, learnVars>>]_vars

InitSession == SessInit /\ BoxIdle /\ ListIdle /\ CodecIdle /\ CamIdle /\ EvIdle /\ PrIdle /\ TmIdle /\ ProgIdle /\ InspIdle /\ LtIdle
SpecSession ==
    InitSession /\ [][SessNext /\ UNCHANGED <<boxVars, listVars, codecVars, camVars, evalVars, prVars, timerVars, progVars, inspVars, learnVars>>]_vars

InitCamera == CamInit /\ BoxIdle /\ ListIdle /\ CodecIdle /\ SessIdle /\ EvIdle /\ PrIdle /\ TmIdle /\ ProgIdle /\ InspIdle /\ LtIdle
SpecCamera ==
    InitCamera /\ [][CamNext /\ UNCHANGED <<boxVars, listVars, codecVars, sessVars, evalVars, prVars, timerVars, progVars, inspVars, learnVars>>]_vars

InitEval == EvInit /\ BoxIdle /\ ListIdle /\ CodecIdle /\ SessIdle /\ CamIdle /\ PrIdle /\ TmIdle /\ ProgIdle /\ InspIdle /\ LtIdle
SpecEval ==
    InitEval /\ [][EvNext /\ UNCHANGED <<boxVars, listVars, codecVars, sessVars, camVars, prVars, timerVars, progVars, inspVars, learnVars>>]_vars

InitPR == PrInit /\ BoxIdle /\ ListIdle /\ CodecIdle /\ SessIdle /\ CamIdle /\ EvIdle /\ TmIdle /\ ProgIdle /\ InspIdle /\ LtIdle
SpecPR ==
    InitPR /\ [][PrNext /\ UNCHANGED <<boxVars, listVars, codecVars, sessVars, camVars, evalVars, timerVars, progVars, inspVars, learnVars>>]_vars

InitTimer == TmInit /\ BoxIdle /\ ListIdle /\ CodecIdle /\ SessIdle /\ CamIdle /\ EvIdle /\ PrIdle /\ ProgIdle /\ InspIdle /\ LtIdle
SpecTimer ==
    InitTimer /\ [][TmNext /\ UNCHANGED <<boxVars, listVars, codecVars, sessVars, camVars, evalVars, prVars, progVars, inspVars, learnVars>>]_vars

InitProgress == ProgInit /\ BoxIdle /\ ListIdle /\ CodecIdle /\ SessIdle /\ CamIdle /\ EvIdle /\ PrIdle /\ TmIdle /\ InspIdle /\ LtIdle
SpecProgress ==
    InitProgress /\ [][ProgNext /\ UNCHANGED <<boxVars, listVars, codecVars, sessVars, camVars, evalVars, prVars, timerVars, inspVars, learnVars>>]_vars

InitInspector == InspInit /\ BoxIdle /\ ListIdle /\ CodecIdle /\ SessIdle /\ CamIdle /\ EvIdle /\ PrIdle /\ TmIdle /\ ProgIdle /\ LtIdle
SpecInspector ==
    InitInspector /\ [][InspNext /\ UNCHANGED <<boxVars, listVars, codecVars, sessVars, camVars, evalVars, prVars, timerVars, progVars, learnVars>>]_vars

InitLearn == LtInit /\ BoxIdle /\ ListIdle /\ CodecIdle /\ SessIdle /\ CamIdle /\ EvIdle /\ PrIdle /\ TmIdle /\ ProgIdle /\ InspIdle
SpecLearn ==
    InitLearn /\ [][LtNext /\ UNCHANGED <<boxVars, listVars, codecVars, sessVars, camVars, evalVars, prVars, timerVars, progVars, inspVars>>]_vars

(***************************************************************************)
(* C2: for every BoundingBox, right >= left and bottom >= top hold in      *)
(* every state after construction, whatever attributes were assigned.      *)
(***************************************************************************)
C2_OrderingAlwaysHolds ==
    \A b \in BoxIds :
        boxes[b] # NoBox =>
            /\ GetAttr(heap, boxes, b, "right") >= GetAttr(heap, boxes, b, "left")
            /\ GetAttr(heap, boxes, b, "bottom") >= GetAttr(heap, boxes, b, "top")


(***************************************************************************)
(* C3 (as stated): deleteModel with a valid index removes the row and the  *)
(* model file but leaves the list file on storage unchanged until save is  *)
(* called.                                                                 *)
(***************************************************************************)
C3_DeleteLeavesListFile ==
    [][\A i \in 0..(MaxModels - 1) :
          (i < Len(mgr.models) /\ MgrDeleteModel(i)) => listFile' = listFile]_vars

(***************************************************************************)
(* C3 (amended): deleteModel with a valid index removes the row from the   *)
(* in-memory list, removes the referenced model file from storage and      *)
(* writes the remaining rows to the list file at once, without a separate  *)
(* call of save.                                                           *)
(***************************************************************************)
C3_DeletePersistsList ==
    [][\A i \in 0..(MaxModels - 1) :
          (i < Len(mgr.models) /\ MgrDeleteModel(i)) =>
              /\ mgr'.models = RemoveAt(mgr.models, i + 1)
              /\ ResolvePath(mgr.models[i + 1].modelfile) \notin disk'
              /\ listFile'.exists
              /\ Len(listFile'.lines) = Len(mgr.models) - 1
              /\ \A k \in 1..Len(listFile'.lines) :
                    listFile'.lines[k] = FormatEntry(mgr'.models[k])]_vars

\* a valid deletion has happened that changed the list file and removed a model file
C3_Witness ==
    /\ mgrOp.name = "delete" /\ mgrOp.done
    /\ listFile.exists
    /\ Len(listFile.lines) = Len(mgr.models)
    /\ Len(mgr.models) >= 1
    /\ AddAbsIn \notin disk
    /\ disk # {}

(***************************************************************************)
(* C4 (as stated): loading a list with the line                            *)
(*   #foo.txt "My Class" 0.5                                               *)
(* yields exactly one entry for it, with classname "My Class", modelfile   *)
(* "foo.txt", threshold 0.5 and disabled = true.                           *)
(***************************************************************************)
C4_EntryAsStated ==
    [classname |-> StrMyClass, modelfile |-> StrFooTxt,
     threshold |-> MkNum(FALSE, 5, 1), synsetId |-> None, disabled |-> TRUE]

C4_EntryAsRead ==
    [classname |-> StrFooTxt, modelfile |-> StrMyClass,
     threshold |-> MkNum(FALSE, 5, 1), synsetId |-> None, disabled |-> TRUE]

\* the list was just loaded from a file without a malformed line
C4_Loaded ==
    /\ mgrOp.name = "init"
    /\ listFile.exists
    /\ \A i \in 1..Len(listFile.lines) : LineKind(listFile.lines[i]) # "raise"

C4_Occurrences == {k \in 1..Len(listFile.lines) : listFile.lines[k] = LineC4}

C4_ParsesAsStated ==
    C4_Loaded =>
        Cardinality({k \in 1..Len(mgr.models) : mgr.models[k] = C4_EntryAsStated})
            = Cardinality(C4_Occurrences)

(***************************************************************************)
(* C4 (amended): loading a list without malformed lines that contains the  *)
(* line  #foo.txt "My Class" 0.5  yields exactly one entry for that line,  *)
(* with classname "foo.txt", modelfile "My Class", threshold 0.5 and       *)
(* disabled = true (the first field of a record is the class name).        *)
(***************************************************************************)
C4_ParsesClassnameFirst ==
    C4_Loaded =>
        /\ Cardinality({k \in 1..Len(mgr.models) : mgr.models[k] = C4_EntryAsRead})
              = Cardinality(C4_Occurrences)
        /\ \A k \in 1..Len(mgr.models) : mgr.models[k] # C4_EntryAsStated

\* a file holding the line and an ordinary comment has been loaded
C4_Witness ==
    /\ C4_Loaded
    /\ listFile.lines = <<LineComment, LineC4>>
    /\ mgr.models = <<C4_EntryAsRead>>

(***************************************************************************)
(* C5: constructing a ModelManager on an existing list file that holds a   *)
(* malformed non-comment line surfaces a parse error to the caller.        *)
(***************************************************************************)
C5_ParseErrorSurfaces ==
    (/\ mgrOp.name = "init"
     /\ listFile.exists
     /\ \E i \in 1..Len(listFile.lines) : LineKind(listFile.lines[i]) = "raise")
        => mgrOp.raised # "none"


(***************************************************************************)
(* C1: for every mixture with at least one component (format 1 or 2),      *)
(* loading the file written by save yields a structurally identical        *)
(* mixture: same number of components, same number of parts in each, same  *)
(* rows x cols x features, offset and deformation parameters for each      *)
(* part, equal bias values, and integral weights equal exactly.            *)
(***************************************************************************)
C1_Shape(part) == <<Len(part.data), Len(part.data[1]), Len(part.data[1][1])>>

C1_SamePart(p, q) ==
    /\ C1_Shape(p) = C1_Shape(q)
    /\ p.offset = q.offset
    /\ \A k \in 1..4 : NumEq(p.params[k], q.params[k])
    /\ \A r \in 1..Len(p.data) : \A c \in 1..Len(p.data[r]) :
          \A f \in 1..Len(p.data[r][c]) :
              IsIntegral(p.data[r][c][f]) => NumEq(p.data[r][c][f], q.data[r][c][f])

C1_SameStructure(a, b) ==
    /\ Len(a.models) = Len(b.models)
    /\ \A c \in 1..Len(a.models) :
          /\ NumEq(a.models[c].bias, b.models[c].bias)
          /\ Len(a.models[c].parts) = Len(b.models[c].parts)
          /\ \A k \in 1..Len(a.models[c].parts) :
                C1_SamePart(a.models[c].parts[k], b.models[c].parts[k])

C1_SaveLoadRoundTrip ==
    (mxOp.name = "save" /\ Len(mx.models) >= 1) =>
        /\ ReadModel(mfile).ok
        /\ C1_SameStructure(mx, ReadModel(mfile).model)

\* a format-2 mixture of two components, one with the 1x2x2 part and a bias
\* changed after loading, has been saved
C1_Witness ==
    /\ mxOp.name = "save"
    /\ mx.formatVersion = 2
    /\ Len(mx.models) = 2
    /\ mx.models[1].parts = <<PartB>>
    /\ mx.models[1].bias = N(TRUE, 5, 1)
    /\ mx.models[2].parts = <<PartA, PartC>>

C7_AtMostLimit ==
    (sessOp.name = "detect" /\ sessOp.raised = "none") => sessOp.count <= sessOp.limit

(***************************************************************************)
(* C7 (amended): detect with limit = k returns at most k results for every *)
(* k >= 1; a limit below 1 is raised to 1, so that for k < 1 it returns at *)
(* most one result (and can return one).                                   *)
(***************************************************************************)
C7_AtMostClampedLimit ==
    (sessOp.name = "detect" /\ sessOp.raised = "none") =>
        sessOp.count <= Max(sessOp.limit, 1)

\* a detect call with limit 0 has returned one result
C7_Witness ==
    /\ sessOp.name = "detect" /\ sessOp.raised = "none"
    /\ sessOp.limit = 0
    /\ sessOp.count = 1

(***************************************************************************)
(* C8: the native destroy function is invoked at most once for the handle  *)
(* of a session, however often destruction is invoked on the session.      *)
(***************************************************************************)
C8_DestroyAtMostOnce == \A h \in Handles : nat.destroyed[h] <= 1

(***************************************************************************)
(* C9: after a session has been destroyed, no operation on it passes the   *)
(* released handle to the native library (the wrapper fails by itself).    *)
(***************************************************************************)
C9_ReleasedHandleNeverPassed ==
    (sessOp.name \notin {"none", "create", "del"}) => ~sessOp.released

(***************************************************************************)
(* C10: no two native operations are in flight at once in the camera       *)
(* window: a detect call of the detector thread never overlaps with the    *)
(* destruction, creation or model registration done by the UI thread.      *)
(***************************************************************************)
C10_NoOverlappingNativeCalls ==
    \A x, y \in shared.inflight : x = y

\* the detector thread is inside detect while the UI thread, asked to
\* re-initialize the detector, stands at the lock
C10_Witness ==
    /\ NativeOp("thread", "detect", shared.detector) \in shared.inflight
    /\ shared.lock = "thread"
    /\ ui.pc = "acquire"

(***************************************************************************)
(* C11: Detector.evaluate always ends, either returning one result         *)
(* dictionary per model added to the detector or raising a                 *)
(* LibARTOSException, whatever codes the native getters return.            *)
(***************************************************************************)
C11_EvaluateReturnsOrRaisesLibError ==
    evOp.name = "evaluate" =>
        \/ /\ evOp.exc.exc = "none"
           /\ ~evOp.diverges
           /\ Len(evOp.results) = evDet.models
        \/ evOp.exc.exc = "LibARTOSException"

(***************************************************************************)
(* C15: for every absolute model path p in the directory of the list file  *)
(* or in one of its sub-directories, addModel(p, ...) stores a path        *)
(* relative to that directory and getModelPath on the new entry returns    *)
(* exactly p.                                                              *)
(***************************************************************************)
C15_InListDir(p) ==
    IsAbs(p) /\ StartsWith(p, Dirname(ListFileName) \o <<"/">>)

C15_AddedPathRoundTrips ==
    [][\A a \in AddPool :
          (MgrAddModel(a) /\ C15_InListDir(a[1])) =>
              LET stored == mgr'.models[Len(mgr'.models)].modelfile
              IN  ~IsAbs(stored) /\ ResolvePath(stored) = a[1]]_vars

(***************************************************************************)
(* C12: getRawEvaluationResults without a model index returns one result   *)
(* sequence per registered model, in model-index order; the index out of   *)
(* bounds that ends the iteration is no error, every other native error is *)
(* raised to the caller.                                                   *)
(***************************************************************************)
C12_RawResultsOnePerModel ==
    evOp.name = "getRawEvaluationResults" =>
        LET failing == {k \in 1..Len(evOp.codes) : evOp.codes[k] < 0}
        IN  IF failing = {}
            THEN /\ evOp.exc.exc = "none"
                 /\ evOp.results = [k \in 1..evDet.models |-> <<"raw", k - 1>>]
            ELSE /\ evOp.exc.exc # "none"
                 /\ evOp.results = <<>>
                 /\ \A k \in failing : (\A j \in failing : k <= j) =>
                        evOp.status = evOp.codes[k]

\* the raw results of a detector with two models have been fetched
C12_Witness ==
    /\ evOp.name = "getRawEvaluationResults"
    /\ evDet.models = 2
    /\ evOp.exc.exc = "none"
    /\ Len(evOp.results) = 2

(***************************************************************************)
(* C13: Detector.evaluate runs the native evaluator with the caller's      *)
(* eqOverlap as overlap criterion, passing exactly the arguments of the    *)
(* registered evaluator_run prototype.                                     *)
(***************************************************************************)
C13_EvaluateRunsWithEqOverlap ==
    evOp.name = "evaluate" =>
        /\ evOp.ranWith = evOp.eqOverlap
        /\ evOp.exc.exc # "TypeError"

(***************************************************************************)
(* C14: for every negative status code of a native session call the        *)
(* wrapper raises a LibARTOSException whose errcode is that status code    *)
(* and which carries a message.                                            *)
(***************************************************************************)
C14_NegativeStatusSurfacesVerbatim ==
    evOp.status < 0 =>
        /\ evOp.exc.exc = "LibARTOSException"
        /\ evOp.exc.errcode = evOp.status
        /\ evOp.exc.msg

(***************************************************************************)
(* C16: in the recall-precision curve derived from raw results in          *)
(* ascending threshold order, every recorded precision is the maximum raw  *)
(* precision tp/(tp+fp) over all raw results with equal or higher recall,  *)
(* the running maximum over the results processed so far.                  *)
(***************************************************************************)
C16_Ascending(raw) ==
    \A i \in 1..(Len(raw) - 1) : raw[i].threshold < raw[i + 1].threshold

C16_MaxAtRecall(raw, r, p) ==
    LET atLeast == {j \in 1..Len(raw) : ~RatLess(RawRecall(raw[j]), r)}
    IN  /\ \E j \in atLeast : RawPrecision(raw[j]) = p
        /\ \A j \in atLeast : ~RatLess(p, RawPrecision(raw[j]))

C16_PrecisionIsRunningMaximum ==
    (pr.called /\ pr.raised = "none") =>
        \A m \in 1..Len(pr.results) :
            C16_Ascending(pr.models[m]) =>
                \A k \in 1..Len(pr.results[m].precision) :
                    C16_MaxAtRecall(pr.models[m], pr.results[m].recall[k],
                                    pr.results[m].precision[k])

(***************************************************************************)
(* C17: for the raw results with thresholds 0.9, 0.5, 0.1 and              *)
(* (tp, fp, np) = (1,0,2), (2,0,2), (2,1,2) the derived precisions are     *)
(* 1, 1, 2/3, the derived recalls 1/2, 1, 1 and the average precision      *)
(* is 1.                                                                   *)
(***************************************************************************)
C17_Fixture == <<RawResult(9, 1, 0, 2), RawResult(5, 2, 0, 2), RawResult(1, 2, 1, 2)>>

C17_FixtureUp == <<RawResult(1, 2, 1, 2), RawResult(5, 2, 0, 2), RawResult(9, 1, 0, 2)>>

C18_XAndYReadable ==
    \A b \in BoxIds :
        boxes[b] # NoBox =>
            /\ ReadAttr(heap, boxes, b, "width").raised = "none"
            /\ ReadAttr(heap, boxes, b, "x") =
                   [raised |-> "none", value |-> GetAttr(heap, boxes, b, "left")]
            /\ ReadAttr(heap, boxes, b, "y") =
                   [raised |-> "none", value |-> GetAttr(heap, boxes, b, "top")]

(***************************************************************************)
(* C20: whenever maxRuns of a Timer is greater than 0, the number of       *)
(* stored measurements does not exceed maxRuns, after any sequence of      *)
(* start, stop, reset and assignments to maxRuns.                          *)
(***************************************************************************)
C20_MeasurementsWithinMaxRuns ==
    tm.maxRuns > 0 => Len(tm.measurements) <= tm.maxRuns

(***************************************************************************)
(* C19: worker threads never update the widgets of the progress window:    *)
(* a worker only stores the progress in the lock-protected fields, and the *)
(* widgets are updated by the periodic poll of the UI thread alone.        *)
(***************************************************************************)
C19_OnlyUiThreadUpdatesWidgets ==
    pwin.writers \subseteq {"ui"}

(***************************************************************************)
(* C30: a BoundingBox constructed from another BoundingBox is an           *)
(* independent copy: assigning left, top, right, bottom, x, y, width or    *)
(* height of either box leaves the coordinates of the other unchanged.     *)
(***************************************************************************)
C30_CopyIsIndependent ==
    [][\A b \in BoxIds, n \in AttrNames, v \in SetVals :
          BoxSetAttr(b, n, v) =>
              \A o \in BoxIds \ {b} :
                  boxes[o] # NoBox =>
                      [i \in 1..4 |-> heap'[boxes'[o].c][i]] =
                          [i \in 1..4 |-> heap[boxes[o].c][i]]]_vars


\* C23: writing the entries a ModelManager holds with save and reading the
\* written file again gives the same entries in the same order, each with the
\* same classname, modelfile, threshold, synsetId and disabled flag.
C23_SaveLoadKeepsEntries ==
    mgr.open =>
        /\ ReadListFile(WriteListFile(mgr.models).lines).ok
        /\ ReadListFile(WriteListFile(mgr.models).lines).models = mgr.models


\* C27: deriving recall, precision, F-measure and Average Precision from raw
\* results raises no error when every raw-result sequence is non-empty and
\* has np > 0, also at thresholds where tp = 0 and fp = 0.
C27_ProcessResultsNeverRaises ==
    (/\ pr.called
     /\ \A k \in 1..Len(pr.models) :
            /\ pr.models[k] # <<>>
            /\ \A i \in 1..Len(pr.models[k]) : pr.models[k][i].np > 0)
        => pr.raised = "none"


\* C28: for every format-2 mixture, loading the file that save wrote for it
\* gives the same feature-extractor type and the same parameters: each name,
\* each type (int, float or string) and each value, also for string values
\* that contain whitespace.
C28_ParametersRoundTrip ==
    (mxOp.name = "load" /\ mxOp.done) =>
        \A m \in ModelPool :
            (m.formatVersion = 2 /\ mfile = WriteModel(m)) =>
                /\ mx.type = m.type
                /\ mx.parameters = m.parameters


\* the entries of models whose index (counted from 0) is not selected, in order
RECURSIVE C29_Unselected(_, _, _)
C29_Unselected(models, selected, i) ==
    IF i >= Len(models) THEN <<>>
    ELSE (IF i \in selected THEN <<>> ELSE <<models[i + 1]>>)
         \o C29_Unselected(models, selected, i + 1)

\* C29: deleting the selected catalogue models removes exactly the entries at
\* the selected indices and their model files, and keeps all other entries in
\* their original relative order.
C29_DeletesExactlySelected ==
    [][(/\ mgrOp'.name = "deleteSelected"
        /\ CatDeleteSelectedModels(mgrOp'.selected)) =>
           LET selected == mgrOp'.selected
           IN  /\ mgr'.models = C29_Unselected(mgr.models, selected, 0)
               /\ listFile' = WriteListFile(C29_Unselected(mgr.models, selected, 0))
               /\ disk' = disk \ {ResolvePath(mgr.models[i + 1].modelfile) :
                                     i \in selected}]_vars

\* two of three different entries were selected and deleted: the first and the last
C29_Witness ==
    /\ mgrOp.name = "deleteSelected"
    /\ mgrOp.selected = {0, 2}
    /\ Len(mgr.models) = 1
    /\ mgr.models[1].disabled


\* C22: the component inspector never removes the last component: a mixture
\* that had at least one component when the inspector was opened has at least
\* one while the window is open, and at least one in the file that apply saved.
C22_KeepsOneComponent ==
    insp.loaded >= 1 =>
        /\ insp.open => Len(insp.model.models) >= 1
        /\ (insp.op.name = "apply" /\ insp.op.done) =>
               /\ ReadModel(ifile).ok
               /\ Len(ReadModel(ifile).model.models) >= 1

\* a mixture of two components was opened, one was removed, a Remove click on
\* the remaining one was turned down, and the mixture was applied and saved
C22_Witness ==
    /\ insp.op.name = "apply" /\ insp.op.done
    /\ insp.loaded = 2
    /\ insp.refused
    /\ Len(ReadModel(ifile).model.models) = 1


\* C24: whenever the detector thread reaches the detect call, the window's
\* detector is set (not None), also after a re-initialization of the detector
\* that failed while capture was running.
C24_DetectOnInitializedDetector ==
    thr = "detect" => shared.detector # 0


\* a frame is outstanding: handed over by the UI thread and not yet answered
\* by the detector thread with needNewFrame
C26_FrameOutstanding ==
    shared.frameAvailable \/ thr \in {"acquire", "detect", "detecting", "publish"}

\* C26: at most one frame is outstanding in the camera window: from the moment
\* the UI thread sets frameAvailable until the detector thread sets
\* needNewFrame again, no step replaces detectionFrame.
C26_OutstandingFrameKept ==
    [][C26_FrameOutstanding => shared'.detectionFrame = shared.detectionFrame]_vars

\* the second frame is with the detector thread, inside the native detect call,
\* while the UI thread is free to poll
C26_Witness ==
    /\ thr = "detecting"
    /\ shared.detectionFrame = 2
    /\ ui.pc = "idle" /\ ui.devOpen


\* the detector thread runs whenever it can, the event loop serves the poll
\* callback, and a handler that has started runs to its end: every native
\* call returns
CamFairness ==
    /\ WF_camVars(ThBegin) /\ WF_camVars(ThLoop) /\ WF_camVars(ThWait)
    /\ WF_camVars(ThAcquire) /\ WF_camVars(ThDetectBegin)
    /\ WF_camVars(\E rc \in StatusCodes, n \in 0..1 : ThDetectEnd(rc, n))
    /\ WF_camVars(ThPublish)
    /\ WF_camVars(UiPollVideoFrame)
    /\ WF_camVars(UiAcquire) /\ WF_camVars(UiDestroyBegin) /\ WF_camVars(UiDestroyEnd)
    /\ WF_camVars(UiCreateBegin) /\ WF_camVars(\E ok \in BOOLEAN : UiCreateEnd(ok))
    /\ WF_camVars(UiAddBegin) /\ WF_camVars(\E rc \in StatusCodes : UiAddEnd(rc))
    /\ WF_camVars(UiDiffBegin) /\ WF_camVars(\E rc \in StatusCodes : UiDiffEnd(rc))
    /\ WF_camVars(\E late \in BOOLEAN : UiFailed(late))
    /\ WF_camVars(UiDropBegin) /\ WF_camVars(UiDropEnd) /\ WF_camVars(UiRelease)
    /\ WF_camVars(UiStartCapture) /\ WF_camVars(UiJoined)

SpecCameraFair == SpecCamera /\ CamFairness

\* C25: while capture is running and the window is not destroyed, a frame
\* handed to the detector thread (frameAvailable set) is eventually followed
\* by detectionsAvailable and needNewFrame being set, given that the UI keeps
\* polling and every native detect call returns, normally or with an error.
C25_HandedFrameIsAnswered ==
    (shared.frameAvailable /\ ui.devOpen /\ ~shared.terminateThread)
        ~> \/ shared.detectionsAvailable /\ shared.needNewFrame
           \/ ~ui.devOpen
           \/ shared.terminateThread


\* the learner calls of a complete in-situ run over n samples
C21_FullOrder(n, mode) ==
    <<"create">> \o [i \in 1..n |-> "addPositiveSample"] \o <<"learn">>
    \o (IF mode # "THOPT_NONE" THEN <<"optimizeThreshold">> ELSE <<>>)
    \o <<"save">>

\* C21: in-situ learning calls the learner in the order create, add every
\* positive sample, learn, optimize threshold (only when enabled), save; once
\* a step has raised no later step is executed, the model file is not saved,
\* and the error is kept for the UI thread, which then reports no model file.
C21_InSituOrder ==
    LET full == C21_FullOrder(job.samples, job.thOptMode)
    IN  /\ Len(job.calls) <= Len(full)
        /\ job.calls = SubSeq(full, 1, Len(job.calls))
        /\ job.saved => (job.calls = full /\ job.error = "none")
        /\ job.error # "none" =>
               /\ job.pc \in {"ended", "reported"}
               /\ ~job.saved
               /\ job.pc = "reported" => job.modelfile = "none"
        /\ (job.pc = "reported" /\ job.error = "none") =>
               (job.saved /\ job.modelfile = "chosen")

\* learn raised in a run over two samples with threshold optimization: the
\* UI thread has the error, neither optimizeThreshold nor save was called
C21_Witness ==
    /\ job.pc = "reported"
    /\ job.thOptMode = "THOPT_LOOCV"
    /\ job.calls = <<"create", "addPositiveSample", "addPositiveSample", "learn">>
    /\ job.error = "LibARTOSException"
    /\ ~job.saved

====
